---- MODULE Spec2Model ----
(***************************************************************************)
(* Query Gateway and Dashboard of the SPCS application template.           *)
(*                                                                         *)
(* The repository holds three editions of the Express server:              *)
(*   "server.js"  src/server.js            (template, /api/health + data)  *)
(*   "part_010"   src/unnamed/part_010     (sales dashboard, env options)  *)
(*   "part_009"   src/unnamed/part_009     (sales dashboard, snowsql file) *)
(* One of them is the running server; the choice is made in Init and never *)
(* changes.  A request handler is an async function: it runs to completion *)
(* between two awaits, so there is one action per stretch of handler code  *)
(* between awaits (start, connect callback, execute callback).             *)
(***************************************************************************)
EXTENDS Integers, Sequences, FiniteSets, TLC

\* ---------------------------------------------------------------- bounds
MaxRequests == 2

Requests == 1..MaxRequests

\* `let connection;` before the assignment, and an absent query-string key
Undefined == 0

Absent == "undefined"

ServerFiles == {"server.js", "part_010", "part_009"}

HealthRoute == "/api/health"

DataRoutes ==
  {"/api/data", "/api/monthly-revenue", "/api/category-sales",
   "/api/top-products", "/api/categories", "/api/top-products-by-category"}

\* the app.get(...) registrations of each server file
Routes(srv) ==
  IF srv = "server.js" THEN {HealthRoute, "/api/data"}
  ELSE {HealthRoute} \cup DataRoutes

Periods == {Absent, "all", "q1", "q2", "recent3", "early3", "ytd"}

Categories == {Absent, "all", "Electronics", "Sports", "x' OR '1'='1"}

Queries == [period : Periods, category : Categories]

NoQuery == [period |-> Absent, category |-> Absent]

VARIABLES
  server,      \* the server file that is running
  pc,          \* per request: "idle", "connecting", "querying", "done"
  route,       \* per request: the matched route ("" before arrival)
  query,       \* per request: req.query (period, category)
  filters,     \* per request: the handler's dateFilter / categoryFilter
  sdkConn,     \* per request: `connection` inside connectToSnowflake
  connection,  \* per request: the handler's `let connection`
  handles,     \* every Connection object created by createConnection
  stmt,        \* per request: the argument of connection.execute
  sent,        \* per request: the responses written to res
  caught,      \* per request: the message of the error its catch received
  rows,        \* per request: the rows its executeQuery() call resolved to
  events       \* per request: history of the calls made on its behalf

gatewayVars ==
  <<server, pc, route, query, filters, sdkConn, connection, handles, stmt,
    sent, caught, rows, events>>

\* what the process finds around it
VARIABLES
  tokenFile,   \* the content of /snowflake/session/token, or NoTokenFile
  env,         \* process.env
  snowsql,     \* ~/.snowsql/config: whether it exists, its section
  client,      \* per request: the client's end of the socket
  products,    \* the PRODUCTS table
  orders       \* the ORDERS table

worldVars ==
  <<tokenFile, env, snowsql, client, products, orders>>

\* the state of the Dashboard component (useState) and its pending fetches
VARIABLES
  loading, filterLoading, error, timePeriod, selectedCategory,
  salesMetrics, monthlyData, categoryData, productData,
  availableCategories,
  inflight     \* the fetchDashboardData calls awaiting their responses

dashVars ==
  <<loading, filterLoading, error, timePeriod, selectedCategory,
    salesMetrics, monthlyData, categoryData, productData,
    availableCategories, inflight>>

\* the account the scripts work on and the operator's shell
VARIABLES
  catalog,     \* the objects and grants that exist in the account
  customers,   \* the CUSTOMERS table
  runs,        \* history: the script runs an operator made, with outcome
  deploy       \* the deploy.sh process: mode, position, polls, exit status

opsVars ==
  <<catalog, customers, runs, deploy>>

vars == <<gatewayVars, dashVars, worldVars, opsVars>>

\* ------------------------------------------------ filters and statements
\* JavaScript truthiness of a query-string value: undefined and '' are falsy
Truthy(v) ==
  v # Absent /\ v # ""

Pad2(n) ==
  IF n < 10 THEN "0" \o ToString(n) ELSE ToString(n)

\* a calendar date yyyymmdd written as the SQL literal 'YYYY-MM-DD'
DateLiteral(d) ==
  "'" \o ToString(d \div 10000) \o "-" \o Pad2((d \div 100) % 100) \o "-"
      \o Pad2(d % 100) \o "'"

\* the period buckets getDateFilter recognises, besides 'all'
PeriodBuckets == {"q1", "q2", "recent3", "early3"}

\* variant: 'recent3' written as the three months March to May
PeriodRangeShifted(period) ==
  CASE period = "q1"      -> [lo |-> 20240101, hi |-> 20240401]
    [] period = "q2"      -> [lo |-> 20240401, hi |-> 20240701]
    [] period = "recent3" -> [lo |-> 20240301, hi |-> 20240601]
    [] period = "early3"  -> [lo |-> 20240101, hi |-> 20240401]

\* the half-open date range [lo, hi) each branch of getDateFilter writes
PeriodRange(period) ==
  CASE period = "q1"      -> [lo |-> 20240101, hi |-> 20240401]
    [] period = "q2"      -> [lo |-> 20240401, hi |-> 20240701]
    [] period = "recent3" -> [lo |-> 20240401, hi |-> 20240701]
    [] period = "early3"  -> [lo |-> 20240101, hi |-> 20240401]

\* "AND o.order_date >= 'lo' AND o.order_date < 'hi'"
RangePredicate(rg) ==
  "AND o.order_date >= " \o DateLiteral(rg.lo)
  \o " AND o.order_date < " \o DateLiteral(rg.hi)

\* variant: the last branch is a plain else, so any other value gets it
getDateFilterLastBranchElse(period) ==
  IF ~Truthy(period) \/ period = "all" THEN ""
  ELSE IF period \in PeriodBuckets
       THEN RangePredicate(PeriodRange(period))
       ELSE RangePredicate(PeriodRange("early3"))

getDateFilter(period) ==
  IF ~Truthy(period) \/ period = "all" THEN ""
  ELSE IF period \in PeriodBuckets
       THEN RangePredicate(PeriodRange(period))
       ELSE ""

\* variant: only the missing value is taken as "no filter"
getCategoryFilterNoSentinel(category) ==
  IF ~Truthy(category) THEN ""
  ELSE "AND p.category = '" \o category \o "'"

getCategoryFilter(category) ==
  IF ~Truthy(category) \/ category = "all" THEN ""
  ELSE "AND p.category = '" \o category \o "'"

JoinProducts == "JOIN PRODUCTS p ON o.product_id = p.product_id"

\* variant: the statement joins PRODUCTS whatever the category is
JoinClauseAlways(categoryFilter) ==
  JoinProducts

\* `${categoryFilter ? 'JOIN PRODUCTS p ON o.product_id = p.product_id' : ''}`
JoinClause(categoryFilter) ==
  IF categoryFilter # "" THEN JoinProducts
  ELSE ""

\* The handler's locals before the try block.  A handler that does not
\* declare one of the two leaves it "" (nothing is interpolated from it).
ComputeFilters(srv, rt, q) ==
  [dateFilter |->
     IF srv # "server.js" /\ rt \in {"/api/data", "/api/monthly-revenue",
          "/api/category-sales", "/api/top-products-by-category"}
     THEN getDateFilter(q.period) ELSE "",
   categoryFilter |->
     IF srv # "server.js" /\ rt \in {"/api/data", "/api/monthly-revenue",
          "/api/category-sales"}
     THEN getCategoryFilter(q.category) ELSE ""]

\* The template literal of each handler; runs of white space in the source
\* are written as one blank, the interpolations are kept as they are.
\* (the three interpolations of each template are its parameters)
DataTemplate(join, dateFilter, categoryFilter) ==
  "SELECT COUNT(DISTINCT o.customer_id) as total_customers, "
  \o "COUNT(DISTINCT o.order_id) as total_orders, "
  \o "SUM(o.total_amount) as total_revenue, "
  \o "ROUND(AVG(o.total_amount), 2) as avg_order_value "
  \o "FROM ORDERS o " \o join
  \o " WHERE 1=1 " \o dateFilter \o " " \o categoryFilter \o ";"

DataQuery(f) ==
  DataTemplate(JoinClause(f.categoryFilter), f.dateFilter, f.categoryFilter)

MonthlyRevenueTemplate(join, dateFilter, categoryFilter) ==
  "SELECT TO_CHAR(o.order_date, 'YYYY-MM') as month, "
  \o "SUM(o.total_amount) as revenue, "
  \o "COUNT(DISTINCT o.order_id) as orders, "
  \o "COUNT(DISTINCT o.customer_id) as customers "
  \o "FROM ORDERS o " \o join
  \o " WHERE 1=1 " \o dateFilter \o " " \o categoryFilter
  \o " GROUP BY TO_CHAR(o.order_date, 'YYYY-MM') ORDER BY month;"

MonthlyRevenueQuery(f) ==
  MonthlyRevenueTemplate(JoinClause(f.categoryFilter), f.dateFilter,
                         f.categoryFilter)

CategorySalesQuery(f, category) ==
  IF Truthy(category) /\ category # "all"
  THEN "SELECT p.product_name as CATEGORY, SUM(o.total_amount) as revenue, "
       \o "COUNT(o.order_id) as orders FROM ORDERS o "
       \o "JOIN PRODUCTS p ON o.product_id = p.product_id "
       \o "WHERE 1=1 " \o f.dateFilter \o " " \o f.categoryFilter
       \o " GROUP BY p.product_name, p.product_id "
       \o "ORDER BY revenue DESC LIMIT 8;"
  ELSE "SELECT p.category, SUM(o.total_amount) as revenue, "
       \o "COUNT(o.order_id) as orders FROM ORDERS o "
       \o "JOIN PRODUCTS p ON o.product_id = p.product_id "
       \o "WHERE 1=1 " \o f.dateFilter
       \o " GROUP BY p.category ORDER BY revenue DESC;"

TopProductsQuery ==
  "SELECT p.product_name, SUM(o.quantity) as units_sold, "
  \o "SUM(o.total_amount) as revenue FROM ORDERS o "
  \o "JOIN PRODUCTS p ON o.product_id = p.product_id "
  \o "GROUP BY p.product_name, p.product_id ORDER BY revenue DESC LIMIT 5;"

CategoriesQuery ==
  "SELECT DISTINCT category FROM PRODUCTS ORDER BY category;"

TopProductsByCategoryQuery(f, category) ==
  IF Truthy(category) /\ category # "all"
  THEN "SELECT p.product_name, p.category, SUM(o.quantity) as units_sold, "
       \o "SUM(o.total_amount) as revenue FROM ORDERS o "
       \o "JOIN PRODUCTS p ON o.product_id = p.product_id "
       \o "WHERE p.category = '" \o category \o "' " \o f.dateFilter
       \o " GROUP BY p.product_name, p.category, p.product_id "
       \o "ORDER BY revenue DESC LIMIT 5;"
  ELSE "SELECT p.product_name, p.category, SUM(o.quantity) as units_sold, "
       \o "SUM(o.total_amount) as revenue FROM ORDERS o "
       \o "JOIN PRODUCTS p ON o.product_id = p.product_id "
       \o "WHERE 1=1 " \o f.dateFilter
       \o " GROUP BY p.product_name, p.category, p.product_id "
       \o "ORDER BY revenue DESC LIMIT 5;"

\* src/server.js: the sample statement; `warehouse` is the value the second
\* getSnowflakeConfig() call returned
SampleQuery(warehouse) ==
  "USE WAREHOUSE " \o warehouse \o "; SELECT CURRENT_TIMESTAMP() as timestamp, "
  \o "CURRENT_USER() as user, CURRENT_ROLE() as role;"

DefaultWarehouse == "COMPUTE_WH"

\* the `query` constant a handler builds from its filters and req.query
BuildQuery(srv, rt, f, q) ==
  IF srv = "server.js" THEN SampleQuery(DefaultWarehouse)
  ELSE CASE rt = "/api/data"                     -> DataQuery(f)
         [] rt = "/api/monthly-revenue"          -> MonthlyRevenueQuery(f)
         [] rt = "/api/category-sales"           -> CategorySalesQuery(f, q.category)
         [] rt = "/api/top-products"             -> TopProductsQuery
         [] rt = "/api/categories"               -> CategoriesQuery
         [] rt = "/api/top-products-by-category" ->
              TopProductsByCategoryQuery(f, q.category)

\* executeQuery(connection, query): what connection.execute receives.  No
\* handler passes binds, so the default [] is sent (part_009 sends no binds
\* key at all, which the client treats the same).
ExecuteOptions(sqlText, binds) ==
  [sqlText |-> sqlText, binds |-> binds]

NoStatement == [sqlText |-> "", binds |-> <<>>]

\* the statement a request with these inputs hands to the warehouse
StatementFor(srv, rt, q) ==
  ExecuteOptions(BuildQuery(srv, rt, ComputeFilters(srv, rt, q), q), <<>>)

\* ----------------------------------------------------------- the warehouse
\* Amounts are DECIMAL(10,2) values, kept as integer cents; dates are kept
\* as the number yyyymmdd.

\* INSERT INTO PRODUCTS: the catalogue of scripts/setup_database.sql, with
\* the ids AUTOINCREMENT hands out
SeedProducts ==
  << [product_id |-> 1, product_name |-> "Wireless Headphones",
     category |-> "Electronics"],
    [product_id |-> 2, product_name |-> "Coffee Maker",
     category |-> "Appliances"],
    [product_id |-> 3, product_name |-> "Running Shoes",
     category |-> "Sports"],
    [product_id |-> 4, product_name |-> "Laptop Stand",
     category |-> "Electronics"],
    [product_id |-> 5, product_name |-> "Yoga Mat",
     category |-> "Sports"],
    [product_id |-> 6, product_name |-> "Smart Watch",
     category |-> "Electronics"],
    [product_id |-> 7, product_name |-> "Blender",
     category |-> "Appliances"],
    [product_id |-> 8, product_name |-> "Desk Lamp",
     category |-> "Furniture"],
    [product_id |-> 9, product_name |-> "Water Bottle",
     category |-> "Sports"],
    [product_id |-> 10, product_name |-> "Bluetooth Speaker",
     category |-> "Electronics"] >>

\* INSERT INTO ORDERS: the orders of scripts/setup_database.sql
SeedOrders ==
  << [order_id |-> 1, customer_id |-> 1, product_id |-> 1,
     quantity |-> 1, order_date |-> 20240115, total_amount |-> 12999],
    [order_id |-> 2, customer_id |-> 2, product_id |-> 3,
     quantity |-> 1, order_date |-> 20240118, total_amount |-> 14999],
    [order_id |-> 3, customer_id |-> 3, product_id |-> 2,
     quantity |-> 2, order_date |-> 20240122, total_amount |-> 17998],
    [order_id |-> 4, customer_id |-> 1, product_id |-> 6,
     quantity |-> 1, order_date |-> 20240205, total_amount |-> 29999],
    [order_id |-> 5, customer_id |-> 4, product_id |-> 4,
     quantity |-> 1, order_date |-> 20240210, total_amount |-> 3999],
    [order_id |-> 6, customer_id |-> 5, product_id |-> 5,
     quantity |-> 3, order_date |-> 20240214, total_amount |-> 8997],
    [order_id |-> 7, customer_id |-> 2, product_id |-> 8,
     quantity |-> 1, order_date |-> 20240220, total_amount |-> 4999],
    [order_id |-> 8, customer_id |-> 6, product_id |-> 1,
     quantity |-> 2, order_date |-> 20240301, total_amount |-> 25998],
    [order_id |-> 9, customer_id |-> 7, product_id |-> 7,
     quantity |-> 1, order_date |-> 20240308, total_amount |-> 7999],
    [order_id |-> 10, customer_id |-> 3, product_id |-> 9,
     quantity |-> 4, order_date |-> 20240315, total_amount |-> 7996],
    [order_id |-> 11, customer_id |-> 8, product_id |-> 10,
     quantity |-> 1, order_date |-> 20240322, total_amount |-> 7999],
    [order_id |-> 12, customer_id |-> 9, product_id |-> 6,
     quantity |-> 1, order_date |-> 20240402, total_amount |-> 29999],
    [order_id |-> 13, customer_id |-> 1, product_id |-> 5,
     quantity |-> 1, order_date |-> 20240410, total_amount |-> 2999],
    [order_id |-> 14, customer_id |-> 10, product_id |-> 3,
     quantity |-> 1, order_date |-> 20240418, total_amount |-> 14999],
    [order_id |-> 15, customer_id |-> 4, product_id |-> 2,
     quantity |-> 1, order_date |-> 20240425, total_amount |-> 8999],
    [order_id |-> 16, customer_id |-> 5, product_id |-> 8,
     quantity |-> 2, order_date |-> 20240505, total_amount |-> 9998],
    [order_id |-> 17, customer_id |-> 6, product_id |-> 4,
     quantity |-> 3, order_date |-> 20240512, total_amount |-> 11997],
    [order_id |-> 18, customer_id |-> 2, product_id |-> 9,
     quantity |-> 2, order_date |-> 20240520, total_amount |-> 3998],
    [order_id |-> 19, customer_id |-> 7, product_id |-> 1,
     quantity |-> 1, order_date |-> 20240528, total_amount |-> 12999],
    [order_id |-> 20, customer_id |-> 8, product_id |-> 7,
     quantity |-> 1, order_date |-> 20240603, total_amount |-> 7999],
    [order_id |-> 21, customer_id |-> 9, product_id |-> 10,
     quantity |-> 2, order_date |-> 20240610, total_amount |-> 15998],
    [order_id |-> 22, customer_id |-> 10, product_id |-> 6,
     quantity |-> 1, order_date |-> 20240615, total_amount |-> 29999],
    [order_id |-> 23, customer_id |-> 3, product_id |-> 5,
     quantity |-> 2, order_date |-> 20240622, total_amount |-> 5998],
    [order_id |-> 24, customer_id |-> 1, product_id |-> 2,
     quantity |-> 1, order_date |-> 20240628, total_amount |-> 8999] >>

Range(s) ==
  {s[i] : i \in DOMAIN s}

\* SQL NULL in a number column (no amount or count is negative)
Null == -1

NoProduct == [product_id |-> 0, product_name |-> "", category |-> ""]

\* `FROM ORDERS o`, with `JOIN PRODUCTS p ON o.product_id = p.product_id`
\* when the statement has the join
FromClause(join, ords, prods) ==
  IF join
  THEN {[o |-> x[1], p |-> x[2]] :
          x \in {y \in ords \X prods : y[1].product_id = y[2].product_id}}
  ELSE {[o |-> x, p |-> NoProduct] : x \in ords}

\* whether the statement of a route joins PRODUCTS
Joins(rt, f) ==
  \/ rt \in {"/api/category-sales", "/api/top-products",
             "/api/top-products-by-category"}
  \/ JoinClause(f.categoryFilter) # ""

\* the text getDateFilter wrote, read as a condition on o.order_date
DateSelects(dateFilter, d) ==
  \/ dateFilter = ""
  \/ \E b \in PeriodBuckets :
       /\ dateFilter = RangePredicate(PeriodRange(b))
       /\ PeriodRange(b).lo <= d
       /\ d < PeriodRange(b).hi

\* a category value that closes the string literal it is written into
Injection == "x' OR '1'='1"

\* `WHERE 1=1 ${dateFilter} AND p.category = '${category}'`; with the
\* Injection value the text reads (1=1 AND date AND p.category = 'x') OR
\* '1'='1'
FilterThenCategory(inPeriod, category, p) ==
  IF category = Injection
  THEN (inPeriod /\ p.category = "x") \/ TRUE
  ELSE inPeriod /\ p.category = category

\* `WHERE p.category = '${category}' ${dateFilter}`; with the Injection
\* value the text reads p.category = 'x' OR ('1'='1' AND date)
CategoryThenFilter(inPeriod, category, p) ==
  IF category = Injection
  THEN p.category = "x" \/ (TRUE /\ inPeriod)
  ELSE p.category = category /\ inPeriod

\* the category value inside the text getCategoryFilter wrote
CategoryIn(categoryFilter) ==
  CHOOSE c \in Categories : categoryFilter = "AND p.category = '" \o c \o "'"

\* the WHERE clause of each route's statement, applied to one row
WhereClause(rt, f, category, row) ==
  LET inPeriod == DateSelects(f.dateFilter, row.o.order_date)
      specific == Truthy(category) /\ category # "all"
  IN CASE rt \in {"/api/data", "/api/monthly-revenue"} ->
            IF f.categoryFilter = "" THEN inPeriod
            ELSE FilterThenCategory(inPeriod, CategoryIn(f.categoryFilter),
                                    row.p)
       [] rt = "/api/category-sales" ->
            IF specific
            THEN IF f.categoryFilter = "" THEN inPeriod
                 ELSE FilterThenCategory(inPeriod,
                        CategoryIn(f.categoryFilter), row.p)
            ELSE inPeriod
       [] rt = "/api/top-products" -> TRUE
       [] rt = "/api/top-products-by-category" ->
            IF specific THEN CategoryThenFilter(inPeriod, category, row.p)
            ELSE inPeriod

\* the rows a route's statement aggregates
Selected(rt, f, category, prods, ords) ==
  {row \in FromClause(Joins(rt, f), ords, prods) :
     WhereClause(rt, f, category, row)}

RECURSIVE SumOver(_, _)
SumOver(f, S) ==
  IF S = {} THEN 0
  ELSE LET x == CHOOSE y \in S : TRUE
       IN f[x] + SumOver(f, S \ {x})

\* SUM(o.total_amount); NULL over no rows
SumAmount(S) ==
  IF S = {} THEN Null ELSE SumOver([x \in S |-> x.o.total_amount], S)

\* SUM(o.quantity)
SumQuantity(S) ==
  IF S = {} THEN Null ELSE SumOver([x \in S |-> x.o.quantity], S)

\* variant: the average is cut off after two decimals
RoundAvgTruncated(S) ==
  IF S = {} THEN Null
  ELSE SumAmount(S) \div Cardinality(S)

\* ROUND(AVG(o.total_amount), 2): half a cent rounds away from zero
RoundAvg(S) ==
  IF S = {} THEN Null
  ELSE (2 * SumAmount(S) + Cardinality(S)) \div (2 * Cardinality(S))

\* the one row of the /api/data statement
DataRows(S) ==
  << [TOTAL_CUSTOMERS |-> Cardinality({x.o.customer_id : x \in S}),
      TOTAL_ORDERS |-> Cardinality({x.o.order_id : x \in S}),
      TOTAL_REVENUE |-> SumAmount(S),
      AVG_ORDER_VALUE |-> RoundAvg(S)] >>

\* TO_CHAR(o.order_date, 'YYYY-MM')
ToCharYYYYMM(d) ==
  ToString(d \div 10000) \o "-" \o Pad2((d \div 100) % 100)

\* the numbers of a set in ascending order
RECURSIVE Ascending(_)
Ascending(N) ==
  IF N = {} THEN <<>>
  ELSE LET least == CHOOSE n \in N : \A m \in N : n <= m
       IN <<least>> \o Ascending(N \ {least})

\* variant: GROUP BY o.order_date
GroupKeyByDay(d) ==
  d

\* GROUP BY TO_CHAR(o.order_date, 'YYYY-MM'): rows share a group when they
\* share year and month
GroupKey(d) ==
  d \div 100

\* the /api/monthly-revenue statement; ORDER BY month puts the 'YYYY-MM'
\* strings in the order of their year and month numbers
MonthlyRows(S) ==
  LET keys == Ascending({GroupKey(x.o.order_date) : x \in S})
      group(k) == {x \in S : GroupKey(x.o.order_date) = k}
      date(k) == (CHOOSE x \in group(k) : TRUE).o.order_date
  IN [i \in DOMAIN keys |->
        [MONTH |-> ToCharYYYYMM(date(keys[i])),
         REVENUE |-> SumAmount(group(keys[i])),
         ORDERS |-> Cardinality({x.o.order_id : x \in group(keys[i])}),
         CUSTOMERS |->
           Cardinality({x.o.customer_id : x \in group(keys[i])})]]

\* variant: ORDER BY revenue (ascending)
RECURSIVE OrderByRevenueAsc(_)
OrderByRevenueAsc(R) ==
  IF R = {} THEN {<<>>}
  ELSE LET firsts == {x \in R : \A y \in R : x.REVENUE <= y.REVENUE}
       IN UNION {{<<x>> \o t : t \in OrderByRevenueAsc(R \ {x})} :
                   x \in firsts}

\* ORDER BY revenue DESC: every order the warehouse may return, rows of
\* equal revenue in any order
RECURSIVE OrderByRevenueDesc(_)
OrderByRevenueDesc(R) ==
  IF R = {} THEN {<<>>}
  ELSE LET firsts == {x \in R : \A y \in R : y.REVENUE <= x.REVENUE}
       IN UNION {{<<x>> \o t : t \in OrderByRevenueDesc(R \ {x})} :
                   x \in firsts}

\* variant: the statement has no LIMIT
LimitNone(n, results) ==
  results

\* LIMIT n
Limit(n, results) ==
  {SubSeq(s, 1, IF Len(s) < n THEN Len(s) ELSE n) : s \in results}

\* the /api/category-sales statements
CategorySalesRows(S, category) ==
  IF Truthy(category) /\ category # "all"
  THEN Limit(8, OrderByRevenueDesc(
         {[CATEGORY |-> p.product_name,
           REVENUE |-> SumAmount({x \in S : x.p = p}),
           ORDERS |-> Cardinality({x \in S : x.p = p})] :
            p \in {x.p : x \in S}}))
  ELSE OrderByRevenueDesc(
         {[CATEGORY |-> c,
           REVENUE |-> SumAmount({x \in S : x.p.category = c}),
           ORDERS |-> Cardinality({x \in S : x.p.category = c})] :
            c \in {x.p.category : x \in S}})

\* the /api/top-products statement
TopProductsRows(S) ==
  Limit(5, OrderByRevenueDesc(
    {[PRODUCT_NAME |-> p.product_name,
      UNITS_SOLD |-> SumQuantity({x \in S : x.p = p}),
      REVENUE |-> SumAmount({x \in S : x.p = p})] : p \in {x.p : x \in S}}))

\* the /api/top-products-by-category statements
TopProductsByCategoryRows(S) ==
  Limit(5, OrderByRevenueDesc(
    {[PRODUCT_NAME |-> p.product_name,
      CATEGORY |-> p.category,
      UNITS_SOLD |-> SumQuantity({x \in S : x.p = p}),
      REVENUE |-> SumAmount({x \in S : x.p = p})] : p \in {x.p : x \in S}}))

\* the category names of the catalogue in the order ORDER BY category gives
CategoryCollation ==
  <<"Appliances", "Electronics", "Furniture", "Sports">>

\* the /api/categories statement: SELECT DISTINCT category ... ORDER BY
CategoriesRows(prods) ==
  LET present == {i \in DOMAIN CategoryCollation :
                    \E p \in prods : p.category = CategoryCollation[i]}
      ranks == Ascending(present)
  IN [i \in DOMAIN ranks |-> [CATEGORY |-> CategoryCollation[ranks[i]]]]

\* the row of src/server.js's sample statement
SampleRows(options) ==
  << [TIMESTAMP |-> "CURRENT_TIMESTAMP", USER |-> options.username,
      ROLE |-> options.role] >>

\* the row sequences the warehouse may hand to the `complete` callback
Results(srv, rt, f, q, options, prods, ords) ==
  IF srv = "server.js" THEN {SampleRows(options)}
  ELSE LET S == Selected(rt, f, q.category, prods, ords)
       IN CASE rt = "/api/data"            -> {DataRows(S)}
            [] rt = "/api/monthly-revenue" -> {MonthlyRows(S)}
            [] rt = "/api/category-sales"  -> CategorySalesRows(S, q.category)
            [] rt = "/api/top-products"    -> TopProductsRows(S)
            [] rt = "/api/categories"      -> {CategoriesRows(prods)}
            [] rt = "/api/top-products-by-category" ->
                 TopProductsByCategoryRows(S)

\* ------------------------------------------------------------- responses
Response(status, success, keys, message) ==
  [status |-> status, success |-> success, keys |-> keys, error |-> message]

\* res.json({status, environment, port, [host,] timestamp}) of /api/health
HealthResponse(srv) ==
  Response(200, TRUE,
           IF srv = "server.js"
           THEN {"status", "environment", "port", "timestamp"}
           ELSE {"status", "environment", "port", "host", "timestamp"}, "")

\* the res.json(...) at the end of each try block
SuccessResponse(srv, rt) ==
  Response(200, TRUE,
           IF srv = "server.js" THEN {"success", "data", "count"}
           ELSE IF rt = "/api/data" THEN {"success", "data", "timestamp"}
           ELSE IF rt = "/api/top-products-by-category"
                THEN {"success", "data", "category"}
           ELSE {"success", "data"}, "")

ErrorMessage(rt) ==
  CASE rt = "/api/data"                     -> "Failed to fetch sales metrics"
    [] rt = "/api/monthly-revenue"          -> "Failed to fetch monthly revenue data"
    [] rt = "/api/category-sales"           -> "Failed to fetch category sales data"
    [] rt = "/api/top-products"             -> "Failed to fetch top products data"
    [] rt = "/api/categories"               -> "Failed to fetch categories"
    [] rt = "/api/top-products-by-category" ->
         "Failed to fetch products by category data"

\* the response each catch block writes: src/server.js answers with
\* res.json (status 200) and mock data, the other two with res.status(500)
ErrorResponse(srv, rt) ==
  IF srv = "server.js"
  THEN Response(200, FALSE, {"success", "error", "mockData", "message"},
                "Database connection failed")
  ELSE Response(500, FALSE, {"success", "error"}, ErrorMessage(rt))

\* -------------------------------------------------------- the Provisioner
\* the process.env entries the three server files read
EnvNames ==
  {"HOME", "SNOWFLAKE_ACCOUNT", "SNOWFLAKE_USERNAME", "SNOWFLAKE_USER",
   "SNOWFLAKE_PASSWORD", "SNOWFLAKE_ROLE", "SNOWFLAKE_WAREHOUSE",
   "SNOWFLAKE_DATABASE", "SNOWFLAKE_SCHEMA", "SNOWFLAKE_HOST"}

\* the keys of a ~/.snowsql/config section the server files read
ConfigKeys ==
  {"accountname", "account", "username", "user", "password",
   "private_key_path", "warehousename", "warehouse", "databasename",
   "database", "schemaname", "schema"}

\* /snowflake/session/token does not exist
NoTokenFile == "ENOENT"

\* the section names that start with "connections."
ConnectionSections == {"connections.default", "connections.prod"}

NoSection == [k \in ConfigKeys |-> Absent]

\* ~/.snowsql/config does not exist
NoConfigFile == [exists |-> FALSE, section |-> "", keys |-> NoSection]

\* which of the readFileSync calls of one provisioning call succeed
IO == [token : BOOLEAN, config : BOOLEAN, key : BOOLEAN]

\* JavaScript's a || b
Or(a, b) ==
  IF Truthy(a) THEN a ELSE b

\* a connection options object; a key that is not set reads as undefined
NoOptions ==
  [account |-> Absent, username |-> Absent, password |-> Absent,
   token |-> Absent, privateKey |-> Absent, authenticator |-> Absent,
   role |-> Absent, warehouse |-> Absent, database |-> Absent,
   schema |-> Absent, accessUrl |-> Absent]

Returns(options) ==
  [ok |-> TRUE, error |-> "", options |-> options]

Throws(message) ==
  [ok |-> FALSE, error |-> message, options |-> NoOptions]

TokenReadError == "EACCES: permission denied, open '/snowflake/session/token'"

ConfigReadError == "EACCES: permission denied, open '~/.snowsql/config'"

PathError == "The \"path\" argument must be of type string. Received undefined"

\* variant: the server never looks for the token file
isRunningInSnowflakeContainerNever(tf) ==
  FALSE

\* fs.existsSync("/snowflake/session/token")
isRunningInSnowflakeContainer(tf) ==
  tf # NoTokenFile

\* variant: the token is read once, when the module is loaded
readTokenCached(tf) ==
  "token-1"

\* fs.readFileSync('/snowflake/session/token', 'ascii')
readToken(tf) ==
  tf

\* ini.parse(...): config.connections.default, or {} when it is not there
DefaultConnection(cfg) ==
  IF cfg.section = "connections.default" THEN cfg.keys ELSE NoSection

\* `connection.x || process.env.X`, `section.x || process.env.X`
FirstOf(fileValue, envValue) ==
  Or(fileValue, envValue)

\* src/server.js: getSnowflakeConfig()
getSnowflakeConfig(tf, e, cfg, io) ==
  IF isRunningInSnowflakeContainer(tf)
  THEN IF ~io.token THEN Throws(TokenReadError)
       ELSE Returns([NoOptions EXCEPT
              !.account = Or(e["SNOWFLAKE_ACCOUNT"], "your-account"),
              !.username = Or(e["SNOWFLAKE_USERNAME"], "your-username"),
              !.role = Or(e["SNOWFLAKE_ROLE"], "APP_SPCS_ROLE"),
              !.warehouse = Or(e["SNOWFLAKE_WAREHOUSE"], "COMPUTE_WH"),
              !.database = Or(e["SNOWFLAKE_DATABASE"], "SPCS_APP_DB"),
              !.schema = Or(e["SNOWFLAKE_SCHEMA"], "APP_SCHEMA"),
              !.authenticator = "OAUTH",
              !.token = readToken(tf),
              !.accessUrl = "https://app-" \o e["SNOWFLAKE_ACCOUNT"]
                              \o ".snowflakecomputing.com"])
  ELSE IF e["HOME"] = Absent THEN Throws(PathError)
  ELSE IF cfg.exists
  THEN IF ~io.config THEN Throws(ConfigReadError)
       ELSE LET conn == DefaultConnection(cfg)
            IN Returns([NoOptions EXCEPT
                 !.account = FirstOf(conn["account"], e["SNOWFLAKE_ACCOUNT"]),
                 !.username = FirstOf(conn["username"],
                                      e["SNOWFLAKE_USERNAME"]),
                 !.password = FirstOf(conn["password"],
                                      e["SNOWFLAKE_PASSWORD"]),
                 !.role = Or(e["SNOWFLAKE_ROLE"], "APP_SPCS_ROLE"),
                 !.warehouse = Or(FirstOf(conn["warehouse"],
                                          e["SNOWFLAKE_WAREHOUSE"]),
                                  "COMPUTE_WH"),
                 !.database = Or(e["SNOWFLAKE_DATABASE"], "SPCS_APP_DB"),
                 !.schema = Or(e["SNOWFLAKE_SCHEMA"], "APP_SCHEMA")])
  ELSE Returns([NoOptions EXCEPT
         !.account = e["SNOWFLAKE_ACCOUNT"],
         !.username = e["SNOWFLAKE_USERNAME"],
         !.password = e["SNOWFLAKE_PASSWORD"],
         !.role = Or(e["SNOWFLAKE_ROLE"], "APP_SPCS_ROLE"),
         !.warehouse = Or(e["SNOWFLAKE_WAREHOUSE"], "COMPUTE_WH"),
         !.database = Or(e["SNOWFLAKE_DATABASE"], "SPCS_APP_DB"),
         !.schema = Or(e["SNOWFLAKE_SCHEMA"], "APP_SCHEMA")])

\* the sales server: getEnvConnectionOptions().  Outside the container it
\* reads ~/.snowsql/config into a local `connection` that nothing uses.
getEnvConnectionOptions(tf, e, cfg, io) ==
  IF isRunningInSnowflakeContainer(tf)
  THEN IF ~io.token THEN Throws(TokenReadError)
       ELSE Returns([NoOptions EXCEPT
              !.account = Or(e["SNOWFLAKE_ACCOUNT"], "VDB52565"),
              !.accessUrl = "https://" \o Or(e["SNOWFLAKE_HOST"], ""),
              !.authenticator = "OAUTH",
              !.token = readToken(tf),
              !.role = e["SNOWFLAKE_ROLE"],
              !.warehouse = e["SNOWFLAKE_WAREHOUSE"],
              !.database = e["SNOWFLAKE_DATABASE"],
              !.schema = e["SNOWFLAKE_SCHEMA"]])
  ELSE IF e["HOME"] = Absent THEN Throws(PathError)
  ELSE IF cfg.exists /\ ~io.config THEN Throws(ConfigReadError)
  ELSE Returns([NoOptions EXCEPT
         !.account = e["SNOWFLAKE_ACCOUNT"],
         !.username = e["SNOWFLAKE_USER"],
         !.password = e["SNOWFLAKE_PASSWORD"],
         !.role = e["SNOWFLAKE_ROLE"],
         !.warehouse = Or(e["SNOWFLAKE_WAREHOUSE"], "COMPUTE_WH"),
         !.database = e["SNOWFLAKE_DATABASE"],
         !.schema = e["SNOWFLAKE_SCHEMA"]])

\* the key-pair server: the container branch of getEnvConnectionOptions(),
\* which connectToSnowflakeFromEnv hands to createConnection
getEnvConnectionOptionsFromEnv(tf, e, io) ==
  IF ~io.token THEN Throws(TokenReadError)
  ELSE Returns([NoOptions EXCEPT
         !.accessUrl = "https://" \o Or(e["SNOWFLAKE_HOST"], ""),
         !.account = Or(e["SNOWFLAKE_ACCOUNT"], ""),
         !.authenticator = "OAUTH",
         !.token = readToken(tf),
         !.role = e["SNOWFLAKE_ROLE"],
         !.warehouse = Or(e["SNOWFLAKE_WAREHOUSE"], "COMPUTE_WH"),
         !.database = e["SNOWFLAKE_DATABASE"],
         !.schema = e["SNOWFLAKE_SCHEMA"]])

\* variant: a key file that cannot be read yields an empty key
loadPrivateKeyOrEmpty(privateKeyPath, io) ==
  "PEM:" \o (IF io.key THEN privateKeyPath ELSE "")

\* loadPrivateKey(privateKeyPath): the PEM text, or null when the read fails
loadPrivateKey(privateKeyPath, io) ==
  IF io.key THEN "PEM:" \o privateKeyPath ELSE Absent

\* connectToSnowflakeFromConfig() up to its createConnection call
connectionParams(e, cfg, io) ==
  IF ~cfg.exists THEN Throws("Config file not found at ~/.snowsql/config")
  ELSE IF ~io.config THEN Throws(ConfigReadError)
  ELSE IF cfg.section = "connections.default"
          \/ cfg.section \notin ConnectionSections
  THEN LET section == cfg.keys
           account == Or(section["accountname"], section["account"])
           username == Or(section["username"], section["user"])
           privateKeyPath == section["private_key_path"]
           password == section["password"]
           warehouse ==
             Or(FirstOf(Or(section["warehousename"], section["warehouse"]),
                        e["SNOWFLAKE_WAREHOUSE"]), "COMPUTE_WH")
           database ==
             FirstOf(Or(section["databasename"], section["database"]),
                     e["SNOWFLAKE_DATABASE"])
           schema ==
             FirstOf(Or(section["schemaname"], section["schema"]),
                     e["SNOWFLAKE_SCHEMA"])
           base == [NoOptions EXCEPT
                      !.account = account, !.username = username,
                      !.warehouse = warehouse,
                      !.database = IF Truthy(database) THEN database
                                   ELSE Absent,
                      !.schema = IF Truthy(schema) THEN schema ELSE Absent]
       IN IF ~Truthy(account) \/ ~Truthy(username)
          THEN Throws(
            "Missing required connection parameters (account, username)")
          ELSE IF ~Truthy(privateKeyPath) /\ ~Truthy(password)
          THEN Throws(
            "Missing authentication method (private_key_path or password)")
          ELSE IF Truthy(privateKeyPath)
          THEN IF ~Truthy(loadPrivateKey(privateKeyPath, io))
               THEN Throws("Failed to load private key")
               ELSE Returns([base EXCEPT
                      !.privateKey = loadPrivateKey(privateKeyPath, io),
                      !.authenticator = "SNOWFLAKE_JWT"])
          ELSE Returns([base EXCEPT !.password = password])
  ELSE Throws("No valid connection configuration found")

\* the connection options each server file's connectToSnowflake() hands to
\* snowflake.createConnection, or the error thrown on the way
Provision(srv, tf, e, cfg, io) ==
  CASE srv = "server.js" -> getSnowflakeConfig(tf, e, cfg, io)
    [] srv = "part_010"  -> getEnvConnectionOptions(tf, e, cfg, io)
    [] srv = "part_009"  ->
         IF isRunningInSnowflakeContainer(tf)
         THEN getEnvConnectionOptionsFromEnv(tf, e, io)
         ELSE connectionParams(e, cfg, io)

\* The argument checks of snowflake.createConnection(options): it throws
\* when an option its authenticator needs is undefined.
MissingOption(options) ==
  IF options.account = Absent
  THEN "A Snowflake account must be specified."
  ELSE IF options.authenticator = "OAUTH"
  THEN IF options.token = Absent THEN "A valid token must be specified."
       ELSE ""
  ELSE IF options.username = Absent
  THEN "A Snowflake user name must be specified."
  ELSE IF options.authenticator = "SNOWFLAKE_JWT"
  THEN IF options.privateKey = Absent
       THEN "A private key must be specified." ELSE ""
  ELSE IF options.password = Absent
  THEN "A password must be specified."
  ELSE ""

\* connectToSnowflake() up to connection.connect: the options, checked
Connectable(srv, tf, e, cfg, io) ==
  LET p == Provision(srv, tf, e, cfg, io)
  IN IF p.ok /\ MissingOption(p.options) # ""
     THEN Throws(MissingOption(p.options))
     ELSE p

\* ------------------------------------------------- connections and steps
Ev(name, h) ==
  [ev |-> name, conn |-> h]

\* variant: one module-level Connection is kept and handed to every request
createConnectionCached(hs, options) ==
  IF hs # <<>> THEN hs
  ELSE Append(hs, [state |-> "created", options |-> options])

\* variant: the parameter set of the first call is kept in a module-level
\* variable and handed to every later call
createConnectionFirstOptions(hs, options) ==
  Append(hs, [state |-> "created",
              options |-> IF hs = <<>> THEN options ELSE hs[1].options])

\* snowflake.createConnection(config): a new Connection object
createConnection(hs, options) ==
  Append(hs, [state |-> "created", options |-> options])

\* connection.destroy()
destroy(hs, h) ==
  [hs EXCEPT ![h].state = "destroyed"]

\* what a stretch of handler code has changed so far for request r
Ctx(r) ==
  [handles |-> handles, events |-> events[r], sent |-> sent[r]]

Note(ctx, name, h) ==
  [ctx EXCEPT !.events = Append(@, Ev(name, h))]

\* variant: the catch block logs the error and sends nothing
CatchBlockLogsOnly(ctx, srv, rt) ==
  ctx

\* catch (error) { ... res.status(500).json({success: false, error}) }
CatchBlock(ctx, srv, rt) ==
  Note([ctx EXCEPT !.sent = Append(@, ErrorResponse(srv, rt))],
       "respond-error", Undefined)

\* res.json({success: true, data: rows, ...}) at the end of the try block
RespondSuccess(ctx, srv, rt) ==
  Note([ctx EXCEPT !.sent = Append(@, SuccessResponse(srv, rt))],
       "respond-success", Undefined)

\* variant: destroy() sits at the end of the try block, not in a finally
FinallyOnSuccessOnly(ctx, conn) ==
  IF conn # Undefined /\ ctx.sent # <<>> /\ ctx.sent[Len(ctx.sent)].success
  THEN Note([ctx EXCEPT !.handles[conn].state = "destroyed"], "destroy", conn)
  ELSE ctx

\* variant: destroy() both at the end of the try block and in the finally
FinallyDestroysTwice(ctx, conn) ==
  IF conn # Undefined
  THEN IF ctx.sent # <<>> /\ ctx.sent[Len(ctx.sent)].success
       THEN Note(Note([ctx EXCEPT !.handles[conn].state = "destroyed"],
                      "destroy", conn), "destroy", conn)
       ELSE Note([ctx EXCEPT !.handles[conn].state = "destroyed"],
                 "destroy", conn)
  ELSE ctx

\* finally { if (connection) { connection.destroy(); } }
FinallyBlock(ctx, conn) ==
  IF conn # Undefined
  THEN Note([ctx EXCEPT !.handles = destroy(@, conn)], "destroy", conn)
  ELSE ctx

Commit(r, ctx) ==
  /\ handles' = ctx.handles
  /\ events' = [events EXCEPT ![r] = ctx.events]
  /\ sent' = [sent EXCEPT ![r] = ctx.sent]

\* requests are numbered in the order in which they arrive
Arrives(r) ==
  /\ pc[r] = "idle"
  /\ \A r2 \in Requests : r2 < r => pc[r2] # "idle"

\* variant: the health check probes the warehouse with a Connection of its
\* own before it answers
HealthChecksWarehouse(r) ==
  /\ Arrives(r)
  /\ pc' = [pc EXCEPT ![r] = "done"]
  /\ route' = [route EXCEPT ![r] = HealthRoute]
  /\ sent' = [sent EXCEPT ![r] = Append(@, HealthResponse(server))]
  /\ LET hs == createConnection(handles, NoOptions)
         h  == Len(hs)
     IN /\ handles' = destroy(hs, h)
        /\ events' = [events EXCEPT ![r] =
                        @ \o <<Ev("create", h), Ev("connect", h),
                               Ev("destroy", h),
                               Ev("respond-success", Undefined)>>]
  /\ UNCHANGED <<server, query, filters, sdkConn, connection, stmt,
                 caught, rows>>
  /\ UNCHANGED dashVars
  /\ UNCHANGED opsVars
  /\ UNCHANGED worldVars

\* GET /api/health: answers at once, touches no Connection
Health(r) ==
  /\ Arrives(r)
  /\ pc' = [pc EXCEPT ![r] = "done"]
  /\ route' = [route EXCEPT ![r] = HealthRoute]
  /\ sent' = [sent EXCEPT ![r] = Append(@, HealthResponse(server))]
  /\ events' = [events EXCEPT ![r] = Append(@, Ev("respond-success", Undefined))]
  /\ UNCHANGED <<server, query, filters, sdkConn, connection, handles, stmt,
                 caught, rows>>
  /\ UNCHANGED dashVars
  /\ UNCHANGED opsVars
  /\ UNCHANGED worldVars

\* the message of the error the warehouse client reports
ConnectError == "Network error. Could not reach Snowflake."

QueryError == "SQL compilation error"

\* A read endpoint's handler up to its first await: the filters are
\* computed, connectToSnowflake() provisions the connection options (which
\* may throw: unreadable token or config file, unset HOME, missing
\* parameter), creates a Connection and calls connect on it.
StartHandler(r, rt, io) ==
  /\ Arrives(r)
  /\ rt \in Routes(server) \ {HealthRoute}
  /\ route' = [route EXCEPT ![r] = rt]
  /\ filters' = [filters EXCEPT ![r] = ComputeFilters(server, rt, query[r])]
  /\ LET c == Connectable(server, tokenFile, env, snowsql, io)
     IN IF c.ok
        THEN LET hs == createConnection(handles, c.options)
                 h  == Len(hs)
             IN /\ Commit(r, Note(Note([Ctx(r) EXCEPT !.handles = hs],
                                       "create", h), "connect", h))
                /\ sdkConn' = [sdkConn EXCEPT ![r] = h]
                /\ pc' = [pc EXCEPT ![r] = "connecting"]
                /\ UNCHANGED caught
        ELSE /\ Commit(r, FinallyBlock(CatchBlock(Ctx(r), server, rt),
                                       connection[r]))
             /\ caught' = [caught EXCEPT ![r] = c.error]
             /\ pc' = [pc EXCEPT ![r] = "done"]
             /\ UNCHANGED sdkConn
  /\ UNCHANGED <<server, query, connection, stmt, rows>>
  /\ UNCHANGED dashVars
  /\ UNCHANGED opsVars
  /\ UNCHANGED worldVars

\* variant: the callback resolves without looking at err
ConnectAlwaysResolves(err) ==
  "resolved"

\* connectToSnowflake's callback: `if (err) reject(err) else resolve(connection)`
ConnectPromise(err) ==
  IF err THEN "rejected" ELSE "resolved"

\* executeQuery's callback: `if (err) reject(err) else resolve(rows)`
ExecutePromise(err) ==
  IF err THEN "rejected" ELSE "resolved"

\* connection.connect((err, conn) => ...) calls back; err tells whether the
\* warehouse client failed to open the Connection.  When the promise
\* rejects, the handler's catch and finally run with `connection` still
\* undefined.  Otherwise the handler resumes after `await
\* connectToSnowflake()`: it builds the statement (src/server.js calls
\* getSnowflakeConfig() a second time, which may throw) and calls execute.
ConnectCallback(r, err, io) ==
  /\ pc[r] = "connecting"
  /\ LET h == sdkConn[r]
         ctx == Note([Ctx(r) EXCEPT !.handles[h].state =
                        IF err THEN "failed" ELSE "connected"],
                     IF err THEN "connect-failed" ELSE "connected", h)
         again == getSnowflakeConfig(tokenFile, env, snowsql, io)
     IN IF ConnectPromise(err) = "rejected"
        THEN /\ Commit(r, FinallyBlock(CatchBlock(ctx, server, route[r]),
                                       connection[r]))
             /\ caught' = [caught EXCEPT ![r] = ConnectError]
             /\ pc' = [pc EXCEPT ![r] = "done"]
             /\ UNCHANGED <<connection, stmt>>
        ELSE /\ connection' = [connection EXCEPT ![r] = h]
             /\ IF server = "server.js" /\ ~again.ok
                THEN /\ Commit(r, FinallyBlock(
                            CatchBlock(ctx, server, route[r]), h))
                     /\ caught' = [caught EXCEPT ![r] = again.error]
                     /\ pc' = [pc EXCEPT ![r] = "done"]
                     /\ UNCHANGED stmt
                ELSE /\ Commit(r, Note(ctx, "execute", h))
                     /\ stmt' = [stmt EXCEPT ![r] =
                           ExecuteOptions(
                             IF server = "server.js"
                             THEN SampleQuery(again.options.warehouse)
                             ELSE BuildQuery(server, route[r],
                                             filters[r], query[r]), <<>>)]
                     /\ pc' = [pc EXCEPT ![r] = "querying"]
                     /\ UNCHANGED caught
  /\ UNCHANGED <<server, route, query, filters, sdkConn, rows>>
  /\ UNCHANGED dashVars
  /\ UNCHANGED opsVars
  /\ UNCHANGED worldVars

\* The `complete` callback of connection.execute: the promise of
\* executeQuery settles and the handler runs to its end.
ExecuteCallback(r, err) ==
  /\ pc[r] = "querying"
  /\ LET h == connection[r]
         ctx == Note(Ctx(r), IF err THEN "query-failed" ELSE "rows", h)
     IN IF ExecutePromise(err) = "rejected"
        THEN Commit(r, FinallyBlock(CatchBlock(ctx, server, route[r]), h))
        ELSE Commit(r, FinallyBlock(RespondSuccess(ctx, server, route[r]), h))
  /\ caught' = [caught EXCEPT ![r] = IF err THEN QueryError ELSE @]
  /\ \E result \in IF err THEN {<<>>}
                    ELSE Results(server, route[r], filters[r], query[r],
                                 handles[connection[r]].options,
                                 products, orders) :
       rows' = [rows EXCEPT ![r] = result]
  /\ pc' = [pc EXCEPT ![r] = "done"]
  /\ UNCHANGED <<server, route, query, filters, sdkConn, connection, stmt>>
  /\ UNCHANGED dashVars
  /\ UNCHANGED opsVars
  /\ UNCHANGED worldVars

\* variant: a 'close' listener destroys the request's Connection
onCloseCancels(ctx, conn) ==
  IF conn # Undefined
  THEN Note([ctx EXCEPT !.handles = destroy(@, conn)], "destroy", conn)
  ELSE ctx

\* what the handler does when its request emits 'close': no handler
\* registers a listener on req or res, so nothing
onClose(ctx, conn) ==
  ctx

\* The client goes away while the handler awaits connectToSnowflake() or
\* executeQuery().
ClientDisconnect(r) ==
  /\ pc[r] \in {"connecting", "querying"}
  /\ client[r] = "open"
  /\ client' = [client EXCEPT ![r] = "closed"]
  /\ Commit(r, onClose(Ctx(r), connection[r]))
  /\ UNCHANGED <<server, pc, route, query, filters, sdkConn, connection, stmt,
                 caught, rows>>
  /\ UNCHANGED <<tokenFile, env, snowsql, products, orders>>
  /\ UNCHANGED dashVars
  /\ UNCHANGED opsVars

\* --------------------------------------------------------- the Dashboard
\* the option values of the timePeriods list
TimePeriodOptions == {"all", "q1", "q2", "recent3", "early3"}

\* the category names the /api/categories endpoint returns
FetchedCategories == {"Electronics", "Sports"}

\* the five fetches of one fetchDashboardData call, in Promise.all order
Fetches ==
  <<"/api/data", "/api/monthly-revenue", "/api/category-sales",
    "/api/top-products-by-category", "/api/categories">>

NoError == "null"

\* useState's initial value of the four data states: nothing fetched yet
NoData == [period |-> "", category |-> ""]

\* the `.data` of the responses to the fetches made with this selection
DataOf(batch) ==
  [period |-> batch.period, category |-> batch.category]

\* variant: the error screen is not returned early, the filters stay usable
SelectorsEnabledDespiteError ==
  ~loading /\ ~filterLoading

\* variant: the <select> elements have no disabled={filterLoading}
SelectorsEnabledWhileUpdating ==
  ~loading /\ error = NoError

\* The two <select> elements are rendered only past the `if (loading)` and
\* `if (error)` early returns, and are disabled while filterLoading.
SelectorsEnabled ==
  ~loading /\ error = NoError /\ ~filterLoading

\* The Retry button is rendered by the `if (error)` return.
RetryShown ==
  ~loading /\ error # NoError

\* the component as mounted by a page load, its first effect already run:
\* fetchDashboardData(true) has set loading and issued the five fetches
FreshPage ==
  /\ loading = TRUE
  /\ filterLoading = FALSE
  /\ error = NoError
  /\ timePeriod = "all"
  /\ selectedCategory = "all"
  /\ salesMetrics = NoData
  /\ monthlyData = NoData
  /\ categoryData = NoData
  /\ productData = NoData
  /\ availableCategories = {"all"}
  /\ inflight = <<[period |-> "all", category |-> "all"]>>

DashInit ==
  FreshPage

\* The effect that runs after timePeriod or selectedCategory has changed:
\* fetchDashboardData(salesMetrics === null) up to its first await.
RunEffect(period, category) ==
  /\ IF salesMetrics = NoData
     THEN loading' = TRUE /\ UNCHANGED filterLoading
     ELSE filterLoading' = TRUE /\ UNCHANGED loading
  /\ inflight' = Append(inflight, [period |-> period, category |-> category])
  /\ UNCHANGED <<error, salesMetrics, monthlyData, categoryData, productData,
                 availableCategories>>

\* onChange of the period <select>
ChangePeriod(p) ==
  /\ SelectorsEnabled
  /\ p \in TimePeriodOptions \ {timePeriod}
  /\ timePeriod' = p
  /\ UNCHANGED selectedCategory
  /\ RunEffect(p, selectedCategory)

\* onChange of the category <select>
ChangeCategory(c) ==
  /\ SelectorsEnabled
  /\ c \in availableCategories \ {selectedCategory}
  /\ selectedCategory' = c
  /\ UNCHANGED timePeriod
  /\ RunEffect(timePeriod, c)

RemoveAt(seq, i) ==
  [j \in 1..(Len(seq) - 1) |-> IF j < i THEN seq[j] ELSE seq[j + 1]]

\* variant: each setter runs as soon as its own response is ok
FetchSettlesPartial(i, ok) ==
  /\ i \in DOMAIN inflight
  /\ inflight' = RemoveAt(inflight, i)
  /\ salesMetrics' = IF ok[1] THEN DataOf(inflight[i]) ELSE salesMetrics
  /\ monthlyData' = IF ok[2] THEN DataOf(inflight[i]) ELSE monthlyData
  /\ categoryData' = IF ok[3] THEN DataOf(inflight[i]) ELSE categoryData
  /\ productData' = IF ok[4] THEN DataOf(inflight[i]) ELSE productData
  /\ availableCategories' = IF ok[5] THEN {"all"} \cup FetchedCategories
                            ELSE availableCategories
  /\ error' = IF \A k \in DOMAIN Fetches : ok[k] THEN NoError
              ELSE "Failed to load analytics data"
  /\ loading' = FALSE
  /\ filterLoading' = FALSE
  /\ UNCHANGED <<timePeriod, selectedCategory>>

\* The responses of the i-th pending fetchDashboardData call have arrived;
\* ok[k] is the `ok` flag of the k-th response.  The rest of the function
\* runs: the throw on a failed response, the five setters, catch, finally.
FetchSettles(i, ok) ==
  /\ i \in DOMAIN inflight
  /\ inflight' = RemoveAt(inflight, i)
  /\ IF \A k \in DOMAIN Fetches : ok[k]
     THEN /\ salesMetrics' = DataOf(inflight[i])
          /\ monthlyData' = DataOf(inflight[i])
          /\ categoryData' = DataOf(inflight[i])
          /\ productData' = DataOf(inflight[i])
          /\ availableCategories' = {"all"} \cup FetchedCategories
          /\ error' = NoError
     ELSE /\ error' = "Failed to load analytics data"
          /\ UNCHANGED <<salesMetrics, monthlyData, categoryData, productData,
                         availableCategories>>
  /\ loading' = FALSE
  /\ filterLoading' = FALSE
  /\ UNCHANGED <<timePeriod, selectedCategory>>

\* onClick of the Retry button: window.location.reload() discards the page
\* with its pending fetches and mounts the component anew
Retry ==
  /\ RetryShown
  /\ loading' = TRUE
  /\ filterLoading' = FALSE
  /\ error' = NoError
  /\ timePeriod' = "all"
  /\ selectedCategory' = "all"
  /\ salesMetrics' = NoData
  /\ monthlyData' = NoData
  /\ categoryData' = NoData
  /\ productData' = NoData
  /\ availableCategories' = {"all"}
  /\ inflight' = <<[period |-> "all", category |-> "all"]>>

DashNext ==
  /\ \/ \E p \in TimePeriodOptions : ChangePeriod(p)
     \/ \E c \in {"all"} \cup FetchedCategories : ChangeCategory(c)
     \/ \E i \in DOMAIN inflight, ok \in [DOMAIN Fetches -> BOOLEAN] :
          FetchSettles(i, ok)
     \/ Retry
  /\ UNCHANGED gatewayVars
  /\ UNCHANGED worldVars
  /\ UNCHANGED opsVars

\* ---------------------------------------------------- deployment scripts
\* An account before the first deployment: the administrator's role and the
\* warehouse scripts/create_app_role.sql grants usage on.
FreshAccount ==
  {"role:ACCOUNTADMIN", "warehouse:COMPUTE_WH"}

\* one statement of a script: what it does, the object it is about and the
\* objects that must exist for it to succeed
Statement(op, object, needs) ==
  [op |-> op, object |-> object, needs |-> needs]

AppRole == "role:APP_SPCS_ROLE"

Database == "database:SPCS_APP_DB"

AppSchema == "schema:SPCS_APP_DB.APP_SCHEMA"

ImageSchema == "schema:SPCS_APP_DB.IMAGE_SCHEMA"

\* scripts/create_app_role.sql
CreateAppRoleSql ==
  << Statement("use", "role:ACCOUNTADMIN", {"role:ACCOUNTADMIN"}),
     Statement("create-if-not-exists", AppRole, {}),
     Statement("grant", "grant:USAGE ON WAREHOUSE COMPUTE_WH",
               {AppRole, "warehouse:COMPUTE_WH"}),
     Statement("grant", "grant:CREATE DATABASE ON ACCOUNT", {AppRole}),
     Statement("grant", "grant:CREATE COMPUTE POOL ON ACCOUNT", {AppRole}),
     Statement("grant", "grant:CREATE SERVICE ON ACCOUNT", {AppRole}),
     Statement("grant", "grant:BIND SERVICE ENDPOINT ON ACCOUNT", {AppRole}),
     Statement("grant", "grant:ROLE APP_SPCS_ROLE TO USER", {AppRole}),
     Statement("query", "SHOW GRANTS TO ROLE APP_SPCS_ROLE", {AppRole}) >>

\* scripts/setup_database.sql (the sales analytics edition, lines 1-118)
SetupDatabaseSql ==
  << Statement("use", AppRole, {AppRole}),
     Statement("use", "warehouse:COMPUTE_WH",
               {"warehouse:COMPUTE_WH",
                "grant:USAGE ON WAREHOUSE COMPUTE_WH"}),
     Statement("create-if-not-exists", Database,
               {AppRole, "grant:CREATE DATABASE ON ACCOUNT"}),
     Statement("create-if-not-exists", AppSchema, {Database}),
     Statement("use", Database, {Database}),
     Statement("use", AppSchema, {AppSchema}),
     Statement("create-if-not-exists", "table:CUSTOMERS", {AppSchema}),
     Statement("create-if-not-exists", "table:PRODUCTS", {AppSchema}),
     Statement("create-if-not-exists", "table:ORDERS", {AppSchema}),
     Statement("insert", "table:CUSTOMERS", {"table:CUSTOMERS"}),
     Statement("insert", "table:PRODUCTS", {"table:PRODUCTS"}),
     Statement("insert", "table:ORDERS", {"table:ORDERS"}),
     Statement("query", "SELECT 'Sales Analytics Database created'", {}),
     Statement("query", "SELECT COUNT(*) FROM CUSTOMERS",
               {"table:CUSTOMERS"}),
     Statement("query", "SELECT COUNT(*) FROM PRODUCTS", {"table:PRODUCTS"}),
     Statement("query", "SELECT COUNT(*) FROM ORDERS", {"table:ORDERS"}),
     Statement("query", "SELECT SUM(total_amount) FROM ORDERS",
               {"table:ORDERS"}),
     Statement("query", "SELECT CURRENT_DATABASE(), ...", {}) >>

\* snowflake/setup_image_repo.sql
SetupImageRepoSql ==
  << Statement("use", AppRole, {AppRole}),
     Statement("use", "warehouse:COMPUTE_WH",
               {"warehouse:COMPUTE_WH",
                "grant:USAGE ON WAREHOUSE COMPUTE_WH"}),
     Statement("use", Database, {Database}),
     Statement("create-if-not-exists", ImageSchema, {Database}),
     Statement("use", ImageSchema, {ImageSchema}),
     Statement("create-if-not-exists", "repository:IMAGE_REPO",
               {ImageSchema}),
     Statement("query", "SHOW IMAGE REPOSITORIES", {ImageSchema}),
     Statement("query", "SELECT 'Image repository setup complete'", {}) >>

\* the statements the two editions of the deployment script share
DeployPrologue ==
  << Statement("use", AppRole, {AppRole}),
     Statement("use", "warehouse:COMPUTE_WH",
               {"warehouse:COMPUTE_WH",
                "grant:USAGE ON WAREHOUSE COMPUTE_WH"}),
     Statement("use", Database, {Database}),
     Statement("use", AppSchema, {AppSchema}),
     Statement("create-if-not-exists", "pool:APP_COMPUTE_POOL",
               {AppRole, "grant:CREATE COMPUTE POOL ON ACCOUNT"}) >>

DeployEpilogue ==
  << Statement("query", "SELECT SYSTEM$GET_SERVICE_STATUS",
               {"service:SPCS_APP_SERVICE"}),
     Statement("query", "SHOW SERVICES", {AppSchema}),
     Statement("query", "DESCRIBE SERVICE SPCS_APP_SERVICE",
               {"service:SPCS_APP_SERVICE"}),
     Statement("query", "SHOW ENDPOINTS IN SERVICE SPCS_APP_SERVICE",
               {"service:SPCS_APP_SERVICE"}) >>

\* the deployment script with a plain CREATE SERVICE (unnamed/part_005)
DeploySqlCreate ==
  DeployPrologue
  \o << Statement("create", "service:SPCS_APP_SERVICE",
                  {AppSchema, "pool:APP_COMPUTE_POOL"}) >>
  \o DeployEpilogue

\* snowflake/deploy.sql: DROP SERVICE IF EXISTS, CREATE SERVICE IF NOT EXISTS
DeploySqlReplace ==
  DeployPrologue
  \o << Statement("drop-if-exists", "service:SPCS_APP_SERVICE", {AppSchema}),
        Statement("create-if-not-exists", "service:SPCS_APP_SERVICE",
                  {AppSchema, "pool:APP_COMPUTE_POOL"}) >>
  \o DeployEpilogue

ScriptFiles ==
  {"scripts/create_app_role.sql", "scripts/setup_database.sql",
   "snowflake/setup_image_repo.sql", "snowflake/deploy.sql",
   "unnamed/part_005"}

StatementsOf(file) ==
  CASE file = "scripts/create_app_role.sql"    -> CreateAppRoleSql
    [] file = "scripts/setup_database.sql"     -> SetupDatabaseSql
    [] file = "snowflake/setup_image_repo.sql" -> SetupImageRepoSql
    [] file = "snowflake/deploy.sql"           -> DeploySqlReplace
    [] file = "unnamed/part_005"               -> DeploySqlCreate

\* INSERT INTO CUSTOMERS: the names of scripts/setup_database.sql
SeedCustomers ==
  << "Alice Johnson", "Bob Smith", "Carol Davis", "David Wilson",
     "Emma Brown", "Frank Miller", "Grace Lee", "Henry Taylor", "Ivy Chen",
     "Jack Garcia" >>

\* the account as the scripts see it
Account(objects, custs, prods, ords) ==
  [catalog |-> objects, customers |-> custs, products |-> prods,
   orders |-> ords]

\* INSERT INTO t (...) VALUES ...: every row is added, AUTOINCREMENT gives
\* each the next unused id; no key is enforced
Insert(table, a) ==
  CASE table = "table:CUSTOMERS" ->
         [a EXCEPT !.customers =
            @ \cup {[customer_id |-> Cardinality(a.customers) + i,
                     customer_name |-> SeedCustomers[i]] :
                      i \in DOMAIN SeedCustomers}]
    [] table = "table:PRODUCTS" ->
         [a EXCEPT !.products =
            @ \cup {[SeedProducts[i] EXCEPT
                       !.product_id = Cardinality(a.products) + i] :
                      i \in DOMAIN SeedProducts}]
    [] table = "table:ORDERS" ->
         [a EXCEPT !.orders =
            @ \cup {[SeedOrders[i] EXCEPT
                       !.order_id = Cardinality(a.orders) + i] :
                      i \in DOMAIN SeedOrders}]

\* whether the warehouse rejects the statement
Rejected(st, a) ==
  \/ ~(st.needs \subseteq a.catalog)
  \/ st.op = "create" /\ st.object \in a.catalog

\* the account after a statement the warehouse accepted
Execute(st, a) ==
  CASE st.op = "create-if-not-exists" ->
         [a EXCEPT !.catalog = @ \cup {st.object}]
    [] st.op = "create" -> [a EXCEPT !.catalog = @ \cup {st.object}]
    [] st.op = "drop-if-exists" -> [a EXCEPT !.catalog = @ \ {st.object}]
    [] st.op = "grant" -> [a EXCEPT !.catalog = @ \cup {st.object}]
    [] st.op = "insert" -> Insert(st.object, a)
    [] OTHER -> a

\* snowsql -f file: the statements run in order; a rejected statement is
\* reported and the next one runs
\* (v: the account statement i finds)
RECURSIVE RunFrom(_, _, _, _)
RunFrom(sts, i, a, errors) ==
  IF i > Len(sts) THEN [account |-> a, errors |-> errors]
  ELSE CHOOSE result \in
         {IF Rejected(sts[i], v)
          THEN RunFrom(sts, i + 1, v, errors \cup {i})
          ELSE RunFrom(sts, i + 1, Execute(sts[i], v), errors) :
            v \in {a}} : TRUE

RunScript(file, a) ==
  RunFrom(StatementsOf(file), 1, a, {})

\* the account after the role and database scripts ran once on a fresh one
Provisioned ==
  RunScript("scripts/setup_database.sql",
            RunScript("scripts/create_app_role.sql",
                      Account(FreshAccount, {}, {}, {})).account).account

\* how many script runs an operator makes
MaxRuns == 4

\* ------------------------------------------------------------- deploy.sh
\* for i in {1..30}
MaxPolls == 30

\* the exit status of a command: 0 or not
ExitStatuses == {0, 1}

Running == -1

\* the command lines deploy.sh is started with
ArgLists ==
  {<<>>, <<"--local">>, <<"--spcs">>, <<"--help">>, <<"--verbose">>,
   <<"--local", "--spcs">>, <<"--spcs", "--local">>}

\* what SYSTEM$GET_SERVICE_STATUS reports for the service's one container;
\* "" when the query itself failed
Statuses == {"READY", "FAILED", "PENDING", ""}

\* the commands of the script in the order in which it runs them: steps 1
\* and 2 always, the rest in --spcs mode
Steps ==
  << "role", "database", "image-repo", "react-build", "docker-build",
     "registry-url", "tag", "login", "push", "deploy" >>

\* the script file a step hands to snowsql -f
ScriptOf(step) ==
  CASE step = "role"       -> "scripts/create_app_role.sql"
    [] step = "database"   -> "scripts/setup_database.sql"
    [] step = "image-repo" -> "snowflake/setup_image_repo.sql"
    [] step = "deploy"     -> "snowflake/deploy.sql"
    [] OTHER               -> ""

\* ran: the commands run so far, each with the status it returned; polls:
\* the loop variable i; status: the last STATUS read
NoDeployment ==
  [args |-> <<>>, mode |-> "spcs", pc |-> "idle", ran |-> <<>>,
   polls |-> 0, status |-> "", ready |-> FALSE, summary |-> "",
   exit |-> Running]

Ran(step, status) ==
  [step |-> step, status |-> status]

\* while [[ $# -gt 0 ]]; do case $1 in ... esac; done
RECURSIVE ParseArgs(_, _)
ParseArgs(args, mode) ==
  IF args = <<>> THEN [mode |-> mode, exit |-> Running]
  ELSE CASE Head(args) = "--local" -> ParseArgs(Tail(args), "local")
         [] Head(args) = "--spcs"  -> ParseArgs(Tail(args), "spcs")
         [] Head(args) = "--help"  -> [mode |-> mode, exit |-> 0]
         [] OTHER                  -> [mode |-> mode, exit |-> 1]

Exit(d, status) ==
  [d EXCEPT !.pc = "exit", !.exit = status]

UnchangedAccount ==
  UNCHANGED <<catalog, customers, products, orders>>

DeployFrame ==
  /\ UNCHANGED <<tokenFile, env, snowsql, client, runs>>
  /\ UNCHANGED gatewayVars
  /\ UNCHANGED dashVars

ParseArguments ==
  /\ deploy.pc = "parse"
  /\ LET p == ParseArgs(deploy.args, deploy.mode)
     IN deploy' = IF p.exit = Running
                  THEN [deploy EXCEPT !.mode = p.mode, !.pc = "check"]
                  ELSE Exit([deploy EXCEPT !.mode = p.mode], p.exit)
  /\ UnchangedAccount
  /\ DeployFrame

\* if [ ! -f "package.json" ]; then ... exit 1
CheckProjectRoot(packageJson) ==
  /\ deploy.pc = "check"
  /\ deploy' = IF packageJson THEN [deploy EXCEPT !.pc = "step"]
               ELSE Exit(deploy, 1)
  /\ UnchangedAccount
  /\ DeployFrame

\* variant: set -e is off and the status of a command is not looked at
AfterStepIgnoringStatus(d, step, status) ==
  IF step = "database" /\ d.mode = "local" THEN [d EXCEPT !.pc = "local"]
  ELSE IF step = Steps[Len(Steps)] THEN [d EXCEPT !.pc = "poll", !.polls = 1]
  ELSE [d EXCEPT !.pc = "step"]

\* where the script goes after a command returned: set -e (and the
\* if [ $? -ne 0 ] / if [ -z ... ] tests) end it on a failure; local mode
\* leaves the sequence after step 2; the polling loop follows the last step
AfterStep(d, step, status) ==
  IF status # 0 THEN Exit(d, status)
  ELSE IF step = "database" /\ d.mode = "local" THEN [d EXCEPT !.pc = "local"]
  ELSE IF step = Steps[Len(Steps)] THEN [d EXCEPT !.pc = "poll", !.polls = 1]
  ELSE [d EXCEPT !.pc = "step"]

\* The next command of the sequence runs and returns with a status. A
\* snowsql -f that returns 0 has run the statements of its script.
RunStep(status) ==
  /\ deploy.pc = "step"
  /\ LET step == Steps[Len(deploy.ran) + 1]
         d    == [deploy EXCEPT !.ran = Append(@, Ran(step, status))]
         now  == Account(catalog, customers, products, orders)
     IN /\ deploy' = AfterStep(d, step, status)
        /\ \E a \in {IF status = 0 /\ ScriptOf(step) # ""
                      THEN RunScript(ScriptOf(step), now).account
                      ELSE now} :
             /\ catalog' = a.catalog
             /\ customers' = a.customers
             /\ products' = a.products
             /\ orders' = a.orders
  /\ DeployFrame

\* cat > .env.local, the local summary and exit 0
LocalSetup(status) ==
  /\ deploy.pc = "local"
  /\ LET d == [deploy EXCEPT !.ran = Append(@, Ran("env-local", status))]
     IN deploy' = IF status # 0 THEN Exit(d, status)
                  ELSE Exit([d EXCEPT !.summary = "local"], 0)
  /\ UnchangedAccount
  /\ DeployFrame

\* one iteration of for i in {1..30}
Poll(d, status) ==
  IF status = "READY" THEN [d EXCEPT !.ready = TRUE, !.pc = "endpoint"]
  ELSE IF status = "FAILED" THEN Exit(d, 1)
  ELSE IF d.polls = MaxPolls THEN Exit(d, 1)
  ELSE [d EXCEPT !.polls = @ + 1]

PollStatus(status) ==
  /\ deploy.pc = "poll"
  /\ deploy' = Poll([deploy EXCEPT !.status = status], status)
  /\ UnchangedAccount
  /\ DeployFrame

\* ENDPOINT=$(snowsql ... | grep | head | awk): the pipeline's status is
\* awk's, so the summary follows whether or not an endpoint was found
ShowSummary(endpoint) ==
  /\ deploy.pc = "endpoint"
  /\ deploy' = Exit([deploy EXCEPT !.summary = "spcs"], 0)
  /\ UnchangedAccount
  /\ DeployFrame

DeployNext ==
  \/ ParseArguments
  \/ \E packageJson \in BOOLEAN : CheckProjectRoot(packageJson)
  \/ \E status \in ExitStatuses : RunStep(status)
  \/ \E status \in ExitStatuses : LocalSetup(status)
  \/ \E status \in Statuses : PollStatus(status)
  \/ \E endpoint \in {"", "https://app.snowflakecomputing.app"} :
       ShowSummary(endpoint)

\* snowsql -f file, typed by an operator
RunScriptFile(file) ==
  /\ Len(runs) < MaxRuns
  /\ \E r \in {RunScript(file,
                          Account(catalog, customers, products, orders))} :
        /\ catalog' = r.account.catalog
        /\ customers' = r.account.customers
        /\ products' = r.account.products
        /\ orders' = r.account.orders
        /\ runs' = Append(runs, [file |-> file, errors |-> r.errors,
                                 account |-> r.account])
  /\ UNCHANGED <<tokenFile, env, snowsql, client, deploy>>
  /\ UNCHANGED gatewayVars
  /\ UNCHANGED dashVars

\* the account the gateway is developed against: role and database scripts
\* ran once, nothing is being deployed
Deployed ==
  /\ catalog = Provisioned.catalog
  /\ customers = Provisioned.customers
  /\ runs = <<>>
  /\ deploy = NoDeployment

NoFilters == [dateFilter |-> "", categoryFilter |-> ""]

\* the gateway before any request has arrived, the page just loaded
GatewayInit ==
  /\ DashInit
  /\ server \in ServerFiles
  /\ pc = [r \in Requests |-> "idle"]
  /\ route = [r \in Requests |-> ""]
  /\ filters = [r \in Requests |-> NoFilters]
  /\ sdkConn = [r \in Requests |-> Undefined]
  /\ connection = [r \in Requests |-> Undefined]
  /\ handles = <<>>
  /\ stmt = [r \in Requests |-> NoStatement]
  /\ sent = [r \in Requests |-> <<>>]
  /\ caught = [r \in Requests |-> ""]
  /\ rows = [r \in Requests |-> <<>>]
  /\ client = [r \in Requests |-> "open"]
  /\ events = [r \in Requests |-> <<>>]

\* A developer's machine: no token file, every variable exported and a
\* ~/.snowsql/config with a complete [connections.default] section.
LocalEnv ==
  [n \in EnvNames |->
     CASE n = "HOME" -> "/home/dev"
       [] n = "SNOWFLAKE_ACCOUNT" -> "env-account"
       [] n \in {"SNOWFLAKE_USERNAME", "SNOWFLAKE_USER"} -> "env-user"
       [] n = "SNOWFLAKE_PASSWORD" -> "env-password"
       [] n = "SNOWFLAKE_ROLE" -> "APP_SPCS_ROLE"
       [] n = "SNOWFLAKE_WAREHOUSE" -> "COMPUTE_WH"
       [] n = "SNOWFLAKE_DATABASE" -> "SPCS_APP_DB"
       [] n = "SNOWFLAKE_SCHEMA" -> "APP_SCHEMA"
       [] OTHER -> Absent]

LocalConfig ==
  [exists |-> TRUE, section |-> "connections.default",
   keys |-> [NoSection EXCEPT !["account"] = "file-account",
                              !["username"] = "file-user",
                              !["password"] = "file-password"]]

LocalHost ==
  /\ tokenFile = NoTokenFile
  /\ env = LocalEnv
  /\ snowsql = LocalConfig

\* the first n orders of the seed script
FirstOrders(n) ==
  {SeedOrders[i] : i \in 1..n}

\* the warehouse after the seed script got as far as its second order
SmallWarehouse ==
  /\ products = Range(SeedProducts)
  /\ orders = FirstOrders(2)
  /\ Deployed

LocalWorld ==
  /\ LocalHost
  /\ SmallWarehouse

Init ==
  /\ GatewayInit
  /\ LocalWorld
  /\ query = [r \in Requests |-> NoQuery]

Serve(r) ==
  \/ Health(r)
  \/ \E rt \in DataRoutes, io \in IO : StartHandler(r, rt, io)
  \/ \E err \in BOOLEAN, io \in IO : ConnectCallback(r, err, io)
  \/ \E err \in BOOLEAN : ExecuteCallback(r, err)

Next ==
  \E r \in Requests : Serve(r)

Spec == Init /\ [][Next]_vars

\* One request whose query string is drawn from Queries: the statements the
\* handlers build for every period and category value.
QInit ==
  /\ GatewayInit
  /\ LocalWorld
  /\ \E q \in Queries :
       query = [r \in Requests |-> IF r = 1 THEN q ELSE NoQuery]

QNext ==
  Serve(1)

QuerySpec == QInit /\ [][QNext]_vars

\* One request against the gateway and the Dashboard in the browser.
RetryNext ==
  Serve(1) \/ DashNext

RetrySpec == Init /\ [][RetryNext]_vars

\* The warehouse client calls every callback it was given, sooner or later
\* (its own connect and query timeouts see to that).
FairSpec ==
  Spec /\ \A r \in Requests :
            /\ WF_vars(\E err \in BOOLEAN, io \in IO :
                          ConnectCallback(r, err, io))
            /\ WF_vars(\E err \in BOOLEAN : ExecuteCallback(r, err))

\* The machines the Provisioner is tried on: each of these variables is
\* exported or not, the config file is missing or has a
\* [connections.default] section with any of these keys, or has only a
\* [connections.prod] section.
EnvDrawn ==
  {"SNOWFLAKE_ACCOUNT", "SNOWFLAKE_USER", "SNOWFLAKE_PASSWORD",
   "SNOWFLAKE_WAREHOUSE", "SNOWFLAKE_DATABASE"}

KeysDrawn ==
  {"account", "username", "password", "private_key_path", "warehouse",
   "database"}

\* SNOWFLAKE_USERNAME (src/server.js) and SNOWFLAKE_USER (the other two)
\* are exported together
Environments ==
  {[n \in EnvNames |->
      IF n = "HOME" THEN "/home/dev"
      ELSE IF n = "SNOWFLAKE_USERNAME"
      THEN IF "SNOWFLAKE_USER" \in S THEN "env:SNOWFLAKE_USER" ELSE Absent
      ELSE IF n \in S THEN "env:" \o n ELSE Absent] : S \in SUBSET EnvDrawn}

ConfigFiles ==
  {NoConfigFile}
  \cup {[exists |-> TRUE, section |-> "connections.default",
         keys |-> [k \in ConfigKeys |->
                     IF k \in K THEN "file:" \o k ELSE Absent]] :
          K \in SUBSET KeysDrawn}
  \cup {[exists |-> TRUE, section |-> "connections.prod",
         keys |-> [k \in ConfigKeys |->
                     IF k \in KeysDrawn THEN "file:" \o k ELSE Absent]]}

Tokens == {"token-1", "token-2"}

PInit ==
  /\ GatewayInit
  /\ query = [r \in Requests |-> NoQuery]
  /\ tokenFile \in {NoTokenFile, "token-1"}
  /\ env \in Environments
  /\ snowsql \in ConfigFiles
  /\ SmallWarehouse

PNext ==
  \/ \E io \in IO : StartHandler(1, "/api/data", io)
  \/ \E err \in BOOLEAN, io \in IO : ConnectCallback(1, err, io)
  \/ \E err \in BOOLEAN : ExecuteCallback(1, err)

ProvisionSpec == PInit /\ [][PNext]_vars

\* Inside the container: the platform keeps /snowflake/session/token in
\* place and replaces its content from time to time.
ContainerEnv ==
  [n \in EnvNames |->
     CASE n = "HOME" -> "/home/app"
       [] n = "SNOWFLAKE_ACCOUNT" -> "env-account"
       [] n = "SNOWFLAKE_HOST" -> "env-account.snowflakecomputing.com"
       [] n = "SNOWFLAKE_ROLE" -> "APP_SPCS_ROLE"
       [] n = "SNOWFLAKE_WAREHOUSE" -> "COMPUTE_WH"
       [] n = "SNOWFLAKE_DATABASE" -> "SPCS_APP_DB"
       [] n = "SNOWFLAKE_SCHEMA" -> "APP_SCHEMA"
       [] OTHER -> Absent]

TInit ==
  /\ GatewayInit
  /\ query = [r \in Requests |-> NoQuery]
  /\ tokenFile = "token-1"
  /\ env = ContainerEnv
  /\ snowsql = NoConfigFile
  /\ SmallWarehouse

\* the platform writes a new token into the file
RotateToken(t) ==
  /\ t \in Tokens
  /\ t # tokenFile
  /\ tokenFile' = t
  /\ UNCHANGED <<env, snowsql, client, products, orders>>
  /\ UNCHANGED gatewayVars
  /\ UNCHANGED dashVars
  /\ UNCHANGED opsVars

TNext ==
  \/ \E r \in Requests :
       \/ \E io \in IO : StartHandler(r, "/api/data", io)
       \/ \E err \in BOOLEAN, io \in IO : ConnectCallback(r, err, io)
       \/ \E err \in BOOLEAN : ExecuteCallback(r, err)
  \/ \E t \in Tokens : RotateToken(t)

TokenSpec == TInit /\ [][TNext]_vars

\* Requests to /api/data whose clients may go away before the answer; the
\* warehouse client still calls every callback it was given.
DNext ==
  \E r \in Requests :
    \/ \E io \in IO : StartHandler(r, "/api/data", io)
    \/ \E err \in BOOLEAN, io \in IO : ConnectCallback(r, err, io)
    \/ \E err \in BOOLEAN : ExecuteCallback(r, err)
    \/ ClientDisconnect(r)

DisconnectSpec ==
  /\ Init
  /\ [][DNext]_vars
  /\ \A r \in Requests :
       /\ WF_vars(\E err \in BOOLEAN, io \in IO : ConnectCallback(r, err, io))
       /\ WF_vars(\E err \in BOOLEAN : ExecuteCallback(r, err))

\* the seed catalogue with every product filed under one category
OneCategoryProducts ==
  {[p EXCEPT !.category = "Sports"] : p \in Range(SeedProducts)}

\* One request with any query string against a warehouse that holds the
\* first n orders of the seed script, for every n, and one of the two
\* catalogues.
DataInit ==
  /\ GatewayInit
  /\ LocalHost
  /\ \E q \in Queries :
       query = [r \in Requests |-> IF r = 1 THEN q ELSE NoQuery]
  /\ products \in {Range(SeedProducts), OneCategoryProducts}
  /\ \E n \in 0..Len(SeedOrders) : orders = FirstOrders(n)
  /\ Deployed

DataSpec == DataInit /\ [][QNext]_vars

\* The gateway on any host: inside the container or on a developer's
\* machine, with or without exported variables and a config file, while the
\* warehouse accepts or refuses connections and statements.
HInit ==
  /\ GatewayInit
  /\ query = [r \in Requests |-> NoQuery]
  /\ tokenFile \in {NoTokenFile, "token-1"}
  /\ env \in {LocalEnv, ContainerEnv}
  /\ snowsql \in {NoConfigFile, LocalConfig}
  /\ SmallWarehouse

\* requests are served; inside the container the platform replaces the token
\* (health checks and requests to /api/data)
HNext ==
  \/ \E r \in Requests :
       \/ Health(r)
       \/ \E io \in IO : StartHandler(r, "/api/data", io)
       \/ \E err \in BOOLEAN, io \in IO : ConnectCallback(r, err, io)
       \/ \E err \in BOOLEAN : ExecuteCallback(r, err)
  \/ \E t \in Tokens : tokenFile # NoTokenFile /\ RotateToken(t)

HostSpec == HInit /\ [][HNext]_vars

\* An operator runs the scripts with snowsql -f on a fresh account, in any
\* order and more than once.
SInit ==
  /\ GatewayInit
  /\ LocalHost
  /\ query = [r \in Requests |-> NoQuery]
  /\ catalog = FreshAccount
  /\ customers = {}
  /\ products = {}
  /\ orders = {}
  /\ runs = <<>>
  /\ deploy = NoDeployment

SNext ==
  \E file \in ScriptFiles : RunScriptFile(file)

ScriptSpec == SInit /\ [][SNext]_vars

\* deploy.sh is started once on a fresh account with any of the command
\* lines; bash runs its commands one after the other and each returns.
DeployInit ==
  /\ GatewayInit
  /\ LocalHost
  /\ query = [r \in Requests |-> NoQuery]
  /\ catalog = FreshAccount
  /\ customers = {}
  /\ products = {}
  /\ orders = {}
  /\ runs = <<>>
  /\ \E args \in ArgLists :
       deploy = [NoDeployment EXCEPT !.args = args, !.pc = "parse"]

DeploySpec ==
  /\ DeployInit
  /\ [][DeployNext]_vars
  /\ WF_vars(DeployNext)

\* --------------------------------------------------------------- history
Count(evs, name) ==
  Cardinality({i \in DOMAIN evs : evs[i].ev = name})

Has(evs, name) ==
  \E i \in DOMAIN evs : evs[i].ev = name

Created(r) == Count(events[r], "create")

Opened(r) == Count(events[r], "connected")

Destroyed(r) == Count(events[r], "destroy")

IsReadRequest(r) ==
  route[r] \in DataRoutes

Finished(r) ==
  pc[r] = "done" /\ IsReadRequest(r)

\* ---------------------------------------------------------------- claims

\* C1: when the handler of a read request has finished, the number of
\* Connections it opened (connect succeeded) equals the number it has
\* destroyed, and every Connection it opened is in the destroyed state;
\* this includes the path where the query fails.
C1_OpenedEqualsDestroyed ==
  \A r \in Requests :
    Finished(r) =>
      /\ Opened(r) = Destroyed(r)
      /\ \A i \in DOMAIN events[r] :
           events[r][i].ev = "connected" =>
             handles[events[r][i].conn].state = "destroyed"

C1_Witness ==
  \E r \in Requests :
    /\ Finished(r)
    /\ Has(events[r], "query-failed")
    /\ Opened(r) = 1
    /\ Destroyed(r) = 1

\* C2 (as stated): every finished read request has opened exactly one
\* Connection and destroyed exactly one, whatever its outcome.
C2_ExactlyOnePerRequest ==
  \A r \in Requests :
    Finished(r) => Opened(r) = 1 /\ Destroyed(r) = 1

\* C2 (amended): a read request creates, opens and destroys at most one
\* Connection; when it has finished it has opened and destroyed exactly one
\* if its connect succeeded, and none if provisioning or connect failed.
C2_AtMostOnePerRequest ==
  \A r \in Requests :
    /\ Created(r) <= 1 /\ Opened(r) <= 1 /\ Destroyed(r) <= 1
    /\ Finished(r) =>
         IF Has(events[r], "connected")
         THEN Opened(r) = 1 /\ Destroyed(r) = 1
         ELSE Opened(r) = 0 /\ Destroyed(r) = 0

C2_Witness ==
  \E r \in Requests :
    /\ Finished(r)
    /\ Has(events[r], "connect-failed")
    /\ Created(r) = 1
    /\ Opened(r) = 0
    /\ Destroyed(r) = 0

\* Idle -> Connecting -> Querying -> Responding -> Closed
Phase(e) ==
  CASE e.ev \in {"create", "connect", "connected", "connect-failed"} -> 1
    [] e.ev \in {"execute", "rows", "query-failed"}                  -> 2
    [] e.ev \in {"respond-success", "respond-error"}                 -> 3
    [] e.ev = "destroy"                                              -> 4

LifecycleOrder(r) ==
  LET evs == events[r]
  IN /\ \A i, j \in DOMAIN evs : i < j => Phase(evs[i]) <= Phase(evs[j])
     /\ \A j \in DOMAIN evs :
          evs[j].ev = "execute" =>
            /\ \E i \in 1..(j - 1) :
                 evs[i].ev = "connected" /\ evs[i].conn = evs[j].conn
            /\ \A i \in 1..(j - 1) :
                 ~(evs[i].ev \in {"destroy", "connect-failed"}
                   /\ evs[i].conn = evs[j].conn)

LiveHandle(r) ==
  /\ connection[r] # Undefined
  /\ handles[connection[r]].state = "connected"

Closed(r) ==
  /\ pc[r] = "done"
  /\ sent[r] # <<>>
  /\ sdkConn[r] # Undefined
  /\ handles[sdkConn[r]].state = "destroyed"
  /\ events[r][Len(events[r])] = Ev("destroy", sdkConn[r])

\* C3: the calls made for a request follow the order connect, execute,
\* respond, destroy; a statement is executing only on a Connection whose
\* connect succeeded and which is not destroyed; and a request whose connect
\* produced a live handle always reaches Closed: the handler has answered,
\* destroyed the handle as its last call, and returned.
C3_Lifecycle ==
  /\ [](\A r \in Requests :
          /\ LifecycleOrder(r)
          /\ (pc[r] = "querying" => LiveHandle(r)))
  /\ \A r \in Requests : (Opened(r) = 1) ~> Closed(r)

C3_Witness ==
  \E r \in Requests :
    /\ Closed(r)
    /\ Has(events[r], "execute")
    /\ Has(events[r], "respond-error")

\* the requests on whose behalf a call was made on handle h
UsersOf(h) ==
  {r \in Requests : \E i \in DOMAIN events[r] : events[r][i].conn = h}

\* C4: every Connection object is created, connected, used and destroyed on
\* behalf of exactly one request, and no two requests hold the same handle,
\* whether they are in flight together or one after the other.
C4_NoSharedConnection ==
  /\ \A h \in DOMAIN handles : Cardinality(UsersOf(h)) = 1
  /\ \A r1, r2 \in Requests :
       r1 # r2 /\ sdkConn[r1] # Undefined => sdkConn[r1] # sdkConn[r2]

C4_Witness ==
  \E r1, r2 \in Requests :
    /\ r1 # r2
    /\ pc[r1] = "querying"
    /\ pc[r2] = "done"
    /\ Has(events[r2], "destroy")
    /\ connection[r1] # connection[r2]

Failed(r) ==
  ~Has(events[r], "rows")

\* C5: a finished read request is answered once; if its provisioning,
\* connect or query step failed, with status 500 and the envelope
\* {success: false, error}; if all steps succeeded, with status 200 and an
\* envelope {success: true, data, ...}.
C5_ErrorEnvelope500 ==
  \A r \in Requests :
    Finished(r) =>
      /\ Len(sent[r]) = 1
      /\ IF Failed(r)
         THEN /\ sent[r][1].status = 500
              /\ ~sent[r][1].success
              /\ sent[r][1].keys = {"success", "error"}
         ELSE /\ sent[r][1].status = 200
              /\ sent[r][1].success
              /\ {"success", "data"} \subseteq sent[r][1].keys

\* the routes whose handler reads req.query.period / req.query.category
PeriodRoutes ==
  {"/api/data", "/api/monthly-revenue", "/api/category-sales",
   "/api/top-products-by-category"}

CategoryRoutes ==
  {"/api/data", "/api/monthly-revenue", "/api/category-sales",
   "/api/top-products-by-category"}

\* request r has handed a statement to connection.execute
StatementSent(r) ==
  Has(events[r], "execute")

TakesFilters(r) ==
  server # "server.js" /\ route[r] \in PeriodRoutes

SpecificCategory(c) ==
  Truthy(c) /\ c # "all"

InBinds(c, binds) ==
  \E i \in DOMAIN binds : binds[i] = c

\* C6: a category value other than "all" is sent to the warehouse as a bound
\* parameter and not inside the SQL text: the text sent is the same as for
\* any other such category value, and the value is among the binds.
C6_CategoryIsBound ==
  \A r \in Requests :
    (StatementSent(r) /\ TakesFilters(r) /\ SpecificCategory(query[r].category))
    => /\ InBinds(query[r].category, stmt[r].binds)
       /\ \A c \in Categories :
            SpecificCategory(c) =>
              stmt[r].sqlText =
                StatementFor(server, route[r],
                             [query[r] EXCEPT !.category = c]).sqlText

\* C7: a request whose period is not one of the enumerated buckets (an
\* unknown value or none at all) gets an empty date filter and sends exactly
\* the statement the same request with period=all sends.
C7_UnrecognizedPeriodIsAll ==
  \A r \in Requests :
    (StatementSent(r) /\ TakesFilters(r)
       /\ query[r].period \notin (PeriodBuckets \cup {"all"}))
    => /\ filters[r].dateFilter = ""
       /\ stmt[r] = StatementFor(server, route[r],
                                 [query[r] EXCEPT !.period = "all"])

C7_Witness ==
  \E r \in Requests :
    /\ StatementSent(r)
    /\ route[r] = "/api/monthly-revenue"
    /\ query[r].period = "ytd"
    /\ query[r].category = "Sports"

Overlap(a, b) ==
  a.lo < b.hi /\ b.lo < a.hi

FixedRange(r) ==
  /\ PeriodRange(query[r].period).lo < PeriodRange(query[r].period).hi
  /\ filters[r].dateFilter = RangePredicate(PeriodRange(query[r].period))

\* C8 (as stated): the date filter of every bucket other than "all" is a
\* fixed date range, and it overlaps the range of no other bucket.
C8_BucketsDisjoint ==
  \A r \in Requests :
    (StatementSent(r) /\ TakesFilters(r) /\ query[r].period \in PeriodBuckets)
    => /\ FixedRange(r)
       /\ \A b \in PeriodBuckets \ {query[r].period} :
            ~Overlap(PeriodRange(query[r].period), PeriodRange(b))

\* C8 (amended): the date filter of every bucket other than "all" is a fixed
\* date range, and the ranges of two buckets are either the same range or
\* disjoint (q1 and early3 share January to March, q2 and recent3 share
\* April to June).
C8_BucketsEqualOrDisjoint ==
  \A r \in Requests :
    (StatementSent(r) /\ TakesFilters(r) /\ query[r].period \in PeriodBuckets)
    => /\ FixedRange(r)
       /\ \A b \in PeriodBuckets :
            \/ PeriodRange(b) = PeriodRange(query[r].period)
            \/ ~Overlap(PeriodRange(query[r].period), PeriodRange(b))
       /\ PeriodRange("q1") = PeriodRange("early3")
       /\ PeriodRange("q2") = PeriodRange("recent3")

C8_Witness ==
  \E r \in Requests :
    /\ StatementSent(r)
    /\ route[r] = "/api/data"
    /\ query[r].period = "recent3"
    /\ filters[r].dateFilter =
         "AND o.order_date >= '2024-04-01' AND o.order_date < '2024-07-01'"

\* C9: with period=all and category=all both filters are empty, the
\* statement is the one built without any filter and it has no binds.
C9_AllAllNoFilters ==
  \A r \in Requests :
    (StatementSent(r) /\ TakesFilters(r)
       /\ query[r].period = "all" /\ query[r].category = "all")
    => /\ filters[r].dateFilter = ""
       /\ filters[r].categoryFilter = ""
       /\ stmt[r].binds = <<>>
       /\ stmt[r].sqlText = BuildQuery(server, route[r], NoFilters, NoQuery)

C9_Witness ==
  \E r \in Requests :
    /\ StatementSent(r)
    /\ route[r] = "/api/data"
    /\ query[r].period = "all"
    /\ query[r].category = "all"
    /\ stmt[r].binds = <<>>

\* a failure is followed by the error response and by no further attempt
FailsFast(evs) ==
  \A i \in DOMAIN evs :
    evs[i].ev \in {"connect-failed", "query-failed"} =>
      /\ i < Len(evs)
      /\ evs[i + 1].ev = "respond-error"
      /\ \A j \in (i + 1)..Len(evs) : evs[j].ev \notin {"connect", "execute"}

\* C10: a request makes at most one connect attempt and at most one
\* statement execution, a failed attempt is followed at once by the error
\* response and by no further attempt, and once the Dashboard shows a
\* failure it starts no fetch unless the page is reloaded by Retry.
C10_NoRetries ==
  /\ [](\A r \in Requests :
          /\ Count(events[r], "connect") <= 1
          /\ Count(events[r], "execute") <= 1
          /\ FailsFast(events[r]))
  /\ [][(error # NoError /\ Len(inflight') > Len(inflight)) => FreshPage']_vars

C10_Witness ==
  /\ error # NoError
  /\ inflight = <<>>
  /\ \E r \in Requests :
       /\ pc[r] = "done"
       /\ Has(events[r], "query-failed")
       /\ Count(events[r], "connect") = 1
       /\ Count(events[r], "execute") = 1

\* the connection options that an expression of the server file fills from
\* the config section or from process.env
BothSources(srv) ==
  CASE srv = "server.js" -> {"account", "username", "password", "warehouse"}
    [] srv = "part_009"  -> {"warehouse", "database", "schema"}
    [] OTHER             -> {}

\* the value process.env holds for an option, as the server file reads it
EnvValue(srv, e, option) ==
  CASE option = "account"   -> e["SNOWFLAKE_ACCOUNT"]
    [] option = "username"  -> IF srv = "server.js"
                               THEN e["SNOWFLAKE_USERNAME"]
                               ELSE e["SNOWFLAKE_USER"]
    [] option = "password"  -> e["SNOWFLAKE_PASSWORD"]
    [] option = "warehouse" -> e["SNOWFLAKE_WAREHOUSE"]
    [] option = "database"  -> e["SNOWFLAKE_DATABASE"]
    [] option = "schema"    -> e["SNOWFLAKE_SCHEMA"]

CredentialMode(options) ==
  options.token = Absent

\* C11: every Connection created in credential mode carries, for each
\* option that the server file fills from both sources, the environment
\* value whenever that value is set; it carries the config-file value only
\* when the environment value is absent.
C11_EnvOverridesConfig ==
  \A h \in DOMAIN handles :
    CredentialMode(handles[h].options) =>
      \A option \in BothSources(server) :
        Truthy(EnvValue(server, env, option)) =>
          handles[h].options[option] = EnvValue(server, env, option)

\* the fields credential mode cannot do without
RequiredFields == {"account", "username", "password"}

EnvSupplies(e, field) ==
  CASE field = "account"  -> Truthy(e["SNOWFLAKE_ACCOUNT"])
    [] field = "username" -> Truthy(e["SNOWFLAKE_USERNAME"])
                             \/ Truthy(e["SNOWFLAKE_USER"])
    [] field = "password" -> Truthy(e["SNOWFLAKE_PASSWORD"])

FileSupplies(cfg, field) ==
  /\ cfg.exists
  /\ cfg.section = "connections.default"
  /\ CASE field = "account"  -> Truthy(cfg.keys["accountname"])
                                \/ Truthy(cfg.keys["account"])
       [] field = "username" -> Truthy(cfg.keys["username"])
                                \/ Truthy(cfg.keys["user"])
       [] field = "password" -> Truthy(cfg.keys["password"])
                                \/ Truthy(cfg.keys["private_key_path"])

\* the required fields that neither source supplies
MissingFields ==
  {field \in RequiredFields :
     ~EnvSupplies(env, field) /\ ~FileSupplies(snowsql, field)}

\* the required fields an error message names
NamedFields(message) ==
  CASE message = "Missing required connection parameters (account, username)"
         -> {"account", "username"}
    [] message = "Missing authentication method (private_key_path or password)"
         -> {"password"}
    [] message = "A Snowflake account must be specified." -> {"account"}
    [] message = "A Snowflake user name must be specified." -> {"username"}
    [] message = "A password must be specified." -> {"password"}
    [] OTHER -> {}

ReadErrors == {TokenReadError, ConfigReadError, PathError}

\* C12: in credential mode, when neither process.env nor the config file
\* supplies a required field and the files that exist can be read, a
\* request ends with no Connection created and with a caught error whose
\* message names a missing field.
C12_MissingFieldNamed ==
  \A r \in Requests :
    ( /\ tokenFile = NoTokenFile
      /\ MissingFields # {}
      /\ pc[r] # "idle"
      /\ caught[r] \notin ReadErrors )
    => /\ Created(r) = 0
       /\ NamedFields(caught[r]) \cap MissingFields # {}

\* C13: a Connection's options carry a token (and the OAUTH authenticator)
\* exactly when /snowflake/session/token exists, and never a token together
\* with a password or a private key.
C13_ModesExclusive ==
  \A h \in DOMAIN handles :
    LET options == handles[h].options
    IN /\ (options.token # Absent) <=> (tokenFile # NoTokenFile)
       /\ (options.authenticator = "OAUTH") <=> (options.token # Absent)
       /\ ~(/\ options.token # Absent
            /\ (options.password # Absent \/ options.privateKey # Absent))

C13_Witness ==
  \E h \in DOMAIN handles :
    /\ handles[h].options.token = "token-1"
    /\ handles[h].state = "connected"
    /\ Truthy(env["SNOWFLAKE_PASSWORD"])
    /\ Truthy(snowsql.keys["private_key_path"])

\* C14: whenever a request creates its Connection in token mode, the token
\* in the Connection's options is the content the token file has at that
\* moment, also when the content was replaced after an earlier request.
C14_TokenReadPerCall ==
  [][\A r \in Requests :
       (pc[r] = "idle" /\ pc'[r] = "connecting")
         => handles'[sdkConn'[r]].options.token = tokenFile]_vars

C14_Witness ==
  \E h1, h2 \in DOMAIN handles :
    /\ h1 < h2
    /\ handles[h1].options.token = "token-1"
    /\ handles[h2].options.token = "token-2"
    /\ tokenFile = "token-2"

\* what belongs to request r alone: its position, response, caught error,
\* history and the state of the Connection made for it
OwnState(r) ==
  <<pc[r], sent[r], caught[r], rows[r], events[r], sdkConn[r], connection[r],
    IF sdkConn[r] # Undefined THEN handles[sdkConn[r]] ELSE <<>>>>

\* C15: a step taken on behalf of one request, a provisioning, connect or
\* query failure included, leaves every other request's position, response,
\* history and Connection as they were; and a finished read request's
\* response is the success envelope exactly when its own query returned
\* rows, whatever happened to the requests running beside it.
C15_FailureScoped ==
  /\ [](\A r \in Requests :
          Finished(r) =>
            sent[r] = << IF Has(events[r], "rows")
                         THEN SuccessResponse(server, route[r])
                         ELSE ErrorResponse(server, route[r]) >>)
  /\ [][\A r1 \in Requests :
          pc'[r1] # pc[r1] =>
            \A r2 \in Requests \ {r1} : OwnState(r2)' = OwnState(r2)]_vars

C15_Witness ==
  \E r1, r2 \in Requests :
    /\ r2 < r1
    /\ pc[r1] = "done"
    /\ Has(events[r1], "query-failed")
    /\ pc[r2] = "querying"
    /\ handles[connection[r2]].state = "connected"

\* the position of the first event of that name in a history (0: none)
FirstIndex(evs, name) ==
  IF Has(evs, name)
  THEN CHOOSE i \in DOMAIN evs :
         evs[i].ev = name /\ \A j \in 1..(i - 1) : evs[j].ev # name
  ELSE 0

Settled(r) ==
  Has(events[r], "rows") \/ Has(events[r], "query-failed")

\* C16: once the client of a request has gone away, a query in flight
\* stays on a connected Connection (nothing cancels it); the handler still
\* finishes, and then the query has called back and the Connection was
\* destroyed exactly once, after that callback.
C16_DisconnectDoesNotCancel ==
  /\ [](\A r \in Requests :
          client[r] = "closed" =>
            /\ pc[r] = "querying" =>
                 handles[connection[r]].state = "connected"
            /\ (pc[r] = "done" /\ Has(events[r], "execute")) =>
                 /\ Settled(r)
                 /\ Destroyed(r) = 1
                 /\ FirstIndex(events[r], "destroy") >
                      FirstIndex(events[r], "execute") + 1
                 /\ handles[connection[r]].state = "destroyed")
  /\ \A r \in Requests :
       (client[r] = "closed" /\ pc[r] = "querying")
         ~> (pc[r] = "done" /\ Settled(r) /\ Destroyed(r) = 1)

C16_Witness ==
  \E r \in Requests :
    /\ client[r] = "closed"
    /\ pc[r] = "done"
    /\ Has(events[r], "rows")
    /\ Destroyed(r) = 1

\* request r got the rows of route rt's statement and answered with them
Answered(r, rt) ==
  /\ pc[r] = "done"
  /\ route[r] = rt
  /\ Has(events[r], "rows")

SpecificCategoryAsked(r) ==
  Truthy(query[r].category) /\ query[r].category # "all"

\* whether an order date lies in the range of a period value
InPeriod(period, d) ==
  period \in PeriodBuckets =>
    PeriodRange(period).lo <= d /\ d < PeriodRange(period).hi

\* the orders of a set of products that lie in the period
OrdersOf(ps, period) ==
  {o \in orders : /\ \E p \in ps : p.product_id = o.product_id
                  /\ InPeriod(period, o.order_date)}

TotalOf(os) ==
  SumOver([o \in os |-> o.total_amount], os)

Descending(rs) ==
  \A i, j \in DOMAIN rs : i < j => rs[i].REVENUE >= rs[j].REVENUE

Matching(r) ==
  {o \in orders :
     /\ InPeriod(query[r].period, o.order_date)
     /\ SpecificCategoryAsked(r) =>
          \E p \in products : /\ p.product_id = o.product_id
                              /\ p.category = query[r].category}

\* the orders the WHERE clause of a request's statement selects
SelectedOrders(r) ==
  {x.o : x \in Selected(route[r], filters[r], query[r].category,
                        products, orders)}

MonthNumber(key) ==
  CHOOSE m \in {o.order_date \div 100 : o \in Range(SeedOrders)} :
    ToCharYYYYMM(m * 100 + 1) = key

HealthPayload ==
  {"status", "environment", "port", "timestamp"}

HealthAnswered(r) ==
  route[r] = HealthRoute

\* C21: GET /api/health is answered at once with status 200 and a payload
\* that carries status, environment, port and timestamp, whatever the token
\* file, the environment, the config file or the warehouse are like, and
\* the request creates, opens or holds no Connection.
C21_HealthAlways200 ==
  /\ [](\A r \in Requests :
          HealthAnswered(r) =>
            /\ pc[r] = "done"
            /\ Len(sent[r]) = 1
            /\ sent[r][1].status = 200
            /\ HealthPayload \subseteq sent[r][1].keys
            /\ Created(r) = 0
            /\ ~Has(events[r], "connect")
            /\ sdkConn[r] = Undefined
            /\ connection[r] = Undefined)
  /\ [][\A r \in Requests :
          ~HealthAnswered(r) /\ HealthAnswered(r)' => handles' = handles]_vars

\* a health check answered inside the container without a config file,
\* after a read request has failed
C21_Witness ==
  \E r1, r2 \in Requests :
    /\ HealthAnswered(r2)
    /\ sent[r2] # <<>>
    /\ tokenFile # NoTokenFile
    /\ snowsql = NoConfigFile
    /\ Finished(r1)
    /\ Failed(r1)

\* the catch block's fallback payload of src/server.js
IsMockData(response) ==
  "mockData" \in response.keys

\* C22: inside the container (token file present) no response to a failed
\* /api/data request carries mock data.
C22_NoMockInProduction ==
  \A r \in Requests :
    (/\ isRunningInSnowflakeContainer(tokenFile)
     /\ route[r] = "/api/data"
     /\ Finished(r)
     /\ Failed(r)) =>
      \A i \in DOMAIN sent[r] : ~IsMockData(sent[r][i])

\* the i-th run repeated the script of the run before it, which had gone
\* through without a rejected statement
Rerun(i) ==
  /\ i \in DOMAIN runs
  /\ i > 1
  /\ runs[i].file = runs[i - 1].file
  /\ runs[i - 1].errors = {}

\* C23: every database script is idempotent: when a script is run again
\* right after a successful run of it, no statement of the second run is
\* rejected and the account (objects, grants, table contents) is the same
\* after the second run as after the first.
C23_ScriptsIdempotent ==
  \A i \in DOMAIN runs :
    Rerun(i) =>
      /\ runs[i].errors = {}
      /\ runs[i].account = runs[i - 1].account

\* every readFileSync of a provisioning call succeeds
AllRead ==
  [token |-> TRUE, config |-> TRUE, key |-> TRUE]

\* a step in which the handler of request r calls connectToSnowflake()
Provisions(r) ==
  pc[r] = "idle" /\ pc'[r] # "idle" /\ route'[r] # HealthRoute

StepNames(ran) ==
  [i \in DOMAIN ran |-> ran[i].step]

IsPrefix(p, q) ==
  Len(p) <= Len(q) /\ \A i \in DOMAIN p : p[i] = q[i]

Exited ==
  deploy.pc = "exit"

ExitedWithError ==
  Exited /\ deploy.exit # 0 /\ deploy.summary = ""

\* the objects only the image and service steps create
ServiceObjects ==
  {ImageSchema, "repository:IMAGE_REPO", "pool:APP_COMPUTE_POOL",
   "service:SPCS_APP_SERVICE"}

\* the commands of --local mode
LocalSequence ==
  << "role", "database", "env-local" >>

\* C25: deploy.sh terminates. The commands run in the order of the script
\* and only the last command run can have failed; a failed command, a
\* FAILED status or a 30th poll without READY ends the script at once
\* with a non-zero status and without a summary, and nothing runs after
\* the exit. The SPCS summary is printed only in --spcs mode, after every
\* step from the role script to the service deployment returned 0 and
\* READY was read on one of at most 30 polls. In --local mode only the
\* role and database scripts and the .env.local step run: no image, Docker
\* or service command, no poll, none of their objects.
C25_DeployTerminates ==
  /\ <>Exited
  /\ [][Exited => deploy' = deploy]_vars
  /\ [](/\ deploy.polls <= MaxPolls
        /\ \/ IsPrefix(StepNames(deploy.ran), Steps)
           \/ IsPrefix(StepNames(deploy.ran), LocalSequence)
        /\ \A i \in DOMAIN deploy.ran :
             deploy.ran[i].status # 0
               => i = Len(deploy.ran) /\ ExitedWithError
        /\ deploy.status = "FAILED" => ExitedWithError
        /\ (Exited /\ deploy.ran # <<>> /\ deploy.mode = "spcs"
              /\ ~deploy.ready) => ExitedWithError
        /\ deploy.summary = "spcs" =>
             /\ deploy.mode = "spcs"
             /\ Exited
             /\ deploy.exit = 0
             /\ StepNames(deploy.ran) = Steps
             /\ \A i \in DOMAIN deploy.ran : deploy.ran[i].status = 0
             /\ deploy.ready
             /\ deploy.status = "READY"
             /\ deploy.polls \in 1..MaxPolls
        /\ deploy.mode = "local" =>
             /\ IsPrefix(StepNames(deploy.ran), LocalSequence)
             /\ deploy.polls = 0
             /\ deploy.summary # "spcs"
             /\ catalog \cap ServiceObjects = {})

\* the summary after READY was read on the 30th poll
C25_Witness ==
  /\ deploy.summary = "spcs"
  /\ deploy.polls = MaxPolls
  /\ "service:SPCS_APP_SERVICE" \in catalog

\* the two routes whose statement joins PRODUCTS on demand
OptionalJoinRoutes ==
  {"/api/data", "/api/monthly-revenue"}

\* the text of the route's statement with this text in the place of the join
WithJoin(rt, join, f) ==
  IF rt = "/api/data"
  THEN DataTemplate(join, f.dateFilter, f.categoryFilter)
  ELSE MonthlyRevenueTemplate(join, f.dateFilter, f.categoryFilter)

\* the statement sent for request r has the JOIN PRODUCTS p clause
JoinsProducts(r) ==
  stmt[r].sqlText = WithJoin(route[r], JoinProducts, filters[r])

\* the statement sent for request r has nothing between FROM ORDERS o and
\* WHERE
OrdersOnly(r) ==
  stmt[r].sqlText = WithJoin(route[r], "", filters[r])

\* the WHERE clause has a condition on p.category
ReferencesProduct(r) ==
  filters[r].categoryFilter # ""

\* C26: the statement sent for /api/data or /api/monthly-revenue has the
\* JOIN PRODUCTS clause when, and only when, its WHERE clause has the
\* category predicate; the predicate is there exactly for a category value
\* other than "all" and the missing value.
C26_JoinIffCategory ==
  \A r \in Requests :
    (StatementSent(r) /\ server # "server.js"
       /\ route[r] \in OptionalJoinRoutes) =>
      /\ ReferencesProduct(r) <=> SpecificCategory(query[r].category)
      /\ ReferencesProduct(r) => JoinsProducts(r) /\ ~OrdersOnly(r)
      /\ ~ReferencesProduct(r) => OrdersOnly(r) /\ ~JoinsProducts(r)

C26_Witness ==
  \E r \in Requests :
    /\ StatementSent(r)
    /\ route[r] = "/api/monthly-revenue"
    /\ query[r].category = "Electronics"
    /\ JoinsProducts(r)

\* the responses the handler of request r has written
Responses(r) ==
  Count(events[r], "respond-success") + Count(events[r], "respond-error")

\* C27: a read request is never answered twice, its handler writes the
\* success response or the failure response and not both, a finished
\* handler has answered, and, the warehouse client calling back, every
\* read request that arrived is answered.
C27_ExactlyOneResponse ==
  /\ [](\A r \in Requests :
          IsReadRequest(r) =>
            /\ Len(sent[r]) <= 1
            /\ Responses(r) = Len(sent[r])
            /\ pc[r] = "done" <=> Len(sent[r]) = 1)
  /\ \A r \in Requests :
       IsReadRequest(r) ~> (IsReadRequest(r) /\ Len(sent[r]) = 1)

\* one request answered with the success response, the other one with the
\* failure response after its statement failed
C27_Witness ==
  \E r1, r2 \in Requests :
    /\ Finished(r1)
    /\ Finished(r2)
    /\ Has(events[r1], "respond-success")
    /\ Has(events[r2], "respond-error")
    /\ caught[r2] = QueryError

\* the selection the two <select> elements show
Selection ==
  [period |-> timePeriod, category |-> selectedCategory]

\* the four data states hold what the fetches of one selection returned
Shows(selection) ==
  /\ salesMetrics = selection
  /\ monthlyData = selection
  /\ categoryData = selection
  /\ productData = selection

\* C28: while a fetch batch is in flight the period and category selectors
\* cannot be used (the loading screen is shown or they are disabled), so
\* there is never more than one batch in flight, the batch in flight was
\* issued for the selection shown, and when no batch is in flight and no
\* error is shown the data on the page are those of the selection shown.
C28_OneBatchInFlight ==
  /\ Len(inflight) <= 1
  /\ inflight # <<>> =>
       /\ ~SelectorsEnabled
       /\ loading \/ filterLoading
       /\ inflight[1] = Selection
  /\ (inflight = <<>> /\ error = NoError) => Shows(Selection)

\* after the initial load a batch for another selection is in flight
C28_Witness ==
  /\ inflight = <<[period |-> "q1", category |-> "Sports"]>>
  /\ filterLoading
  /\ salesMetrics = [period |-> "all", category |-> "Sports"]

\* the four data states
DataStates ==
  <<salesMetrics, monthlyData, categoryData, productData>>

AllOk(ok) ==
  \A k \in DOMAIN Fetches : ok[k]

\* C29: when the responses of a batch have arrived, the four data states
\* are replaced by the data of that batch if all five responses are ok, and
\* then the error is cleared; if one of them is not ok, none of the four
\* changes and the error is set; either way both loading flags are off
\* afterwards.
C29_AllOrNothing ==
  [][\A i \in DOMAIN inflight, ok \in [DOMAIN Fetches -> BOOLEAN] :
       FetchSettles(i, ok) =>
         /\ ~loading'
         /\ ~filterLoading'
         /\ IF AllOk(ok)
            THEN /\ DataStates' = <<DataOf(inflight[i]), DataOf(inflight[i]),
                                    DataOf(inflight[i]), DataOf(inflight[i])>>
                 /\ error' = NoError
            ELSE /\ DataStates' = DataStates
                 /\ error' # NoError]_vars

\* a filter batch failed: the page keeps the data of the selection before
\* and shows the error
C29_Witness ==
  /\ error # NoError
  /\ inflight = <<>>
  /\ ~loading
  /\ ~filterLoading
  /\ Selection = [period |-> "q2", category |-> "all"]
  /\ Shows([period |-> "all", category |-> "all"])

\* connectToSnowflakeFromConfig() reads a [connections.default] section
\* that has a private_key_path
KeyPairConfigured ==
  /\ server = "part_009"
  /\ ~isRunningInSnowflakeContainer(tokenFile)
  /\ snowsql.exists
  /\ snowsql.section = "connections.default"
  /\ Truthy(snowsql.keys["private_key_path"])

\* C30: in connectToSnowflakeFromConfig, with a private_key_path in the
\* configuration section, a call that creates a Connection gives it the
\* private key and the SNOWFLAKE_JWT authenticator and no password, also
\* when the section has a password; when the key file cannot be read the
\* call fails with an error ('Failed to load private key' once the config
\* file was read and names account and user), the handler answers with the
\* failure response, and no Connection is created or connected.
C30_KeyPairNoFallback ==
  [][\A r \in Requests, io \in IO :
       (KeyPairConfigured /\ StartHandler(r, "/api/data", io)) =>
         /\ pc'[r] = "connecting" =>
              /\ io.key
              /\ handles'[sdkConn'[r]].options.privateKey
                   = "PEM:" \o snowsql.keys["private_key_path"]
              /\ handles'[sdkConn'[r]].options.authenticator = "SNOWFLAKE_JWT"
              /\ handles'[sdkConn'[r]].options.password = Absent
         /\ ~io.key =>
              /\ pc'[r] = "done"
              /\ caught'[r] # NoError
              /\ handles' = handles
              /\ sdkConn'[r] = Undefined
              /\ ~Has(events'[r], "create")
              /\ ~Has(events'[r], "connect")
              /\ Has(events'[r], "respond-error")
              /\ (/\ io.config
                  /\ Truthy(snowsql.keys["account"])
                  /\ Truthy(snowsql.keys["username"]))
                   => caught'[r] = "Failed to load private key"]_vars

\* the key file could not be read although the section also has a password:
\* the request failed and no Connection exists
C30_Witness ==
  /\ KeyPairConfigured
  /\ Truthy(snowsql.keys["password"])
  /\ \E r \in Requests :
       /\ caught[r] = "Failed to load private key"
       /\ Finished(r)
       /\ Has(events[r], "respond-error")
  /\ handles = <<>>

====
